---- MODULE Spec2Model ----
(***************************************************************************)
(* A model of the feed-forward network trainer: Layer, Network,           *)
(* StochasticGradientDescent, the activation / cost / optimizer factories *)
(* and NetworkBuilder's save and load.                                    *)
(*                                                                        *)
(* Numbers.  The program computes in IEEE doubles.  The model computes in *)
(* a small binary fixed-point type with the same kinds of value: a finite *)
(* number is a whole count of 1/Scale units, every arithmetic result is   *)
(* rounded to the nearest unit (ties to even) as a double is rounded to   *)
(* its 53 bits, a result beyond MaxFinite overflows to an infinity, and   *)
(* NaN is a value.  A number is the pair <<n, d>>: <<v, 1>> is the finite *)
(* value v/Scale, <<1, 0>> and <<-1, 0>> are the infinities, <<0, 0>> is  *)
(* NaN.  The sign of zero is not modelled.                                *)
(***************************************************************************)
EXTENDS Integers, Sequences, FiniteSets, TLC

Scale == 16
MaxFinite == 4095

Fin(v) == <<v, 1>>
PInf == <<1, 0>>
NInf == <<-1, 0>>
NaN == <<0, 0>>
Zero == Fin(0)
One == Fin(Scale)

IsFinite(a) == a[2] = 1
IsNaN(a) == a = NaN
Val(a) == a[1]
Sgn(v) == IF v > 0 THEN 1 ELSE IF v < 0 THEN -1 ELSE 0
Abs(v) == IF v < 0 THEN -v ELSE v

\* n / d (d > 0) rounded to the nearest integer, ties to the even one.
RoundDiv(n, d) ==
    LET q == n \div d
        r == n % d
    IN  IF 2 * r < d THEN q
        ELSE IF 2 * r > d THEN q + 1
        ELSE IF q % 2 = 0 THEN q ELSE q + 1

\* A rounded result as a number: overflow gives an infinity.
Norm(v) ==
    IF v > MaxFinite THEN PInf
    ELSE IF v < -MaxFinite THEN NInf
    ELSE Fin(v)

Neg(a) == <<-a[1], a[2]>>

Add(a, b) ==
    IF IsNaN(a) \/ IsNaN(b) THEN NaN
    ELSE IF ~IsFinite(a) /\ ~IsFinite(b) THEN (IF a = b THEN a ELSE NaN)
    ELSE IF ~IsFinite(a) THEN a
    ELSE IF ~IsFinite(b) THEN b
    ELSE Norm(Val(a) + Val(b))

Sub(a, b) == Add(a, Neg(b))

Mul(a, b) ==
    IF IsNaN(a) \/ IsNaN(b) THEN NaN
    ELSE IF ~IsFinite(a) \/ ~IsFinite(b)
         THEN (IF Val(a) = 0 \/ Val(b) = 0 THEN NaN
               ELSE <<Sgn(Val(a)) * Sgn(Val(b)), 0>>)
    ELSE Norm(RoundDiv(Val(a) * Val(b), Scale))

Div(a, b) ==
    IF IsNaN(a) \/ IsNaN(b) THEN NaN
    ELSE IF ~IsFinite(b) THEN (IF IsFinite(a) THEN Zero ELSE NaN)
    ELSE IF ~IsFinite(a)
         THEN <<Val(a) * (IF Val(b) < 0 THEN -1 ELSE 1), 0>>
    ELSE IF Val(b) = 0 THEN <<Sgn(Val(a)), 0>>
    ELSE Norm(RoundDiv(Sgn(Val(b)) * Val(a) * Scale, Abs(Val(b))))

\* a > b as the program's double comparison: false when either is NaN.
Gt(a, b) ==
    IF IsNaN(a) \/ IsNaN(b) THEN FALSE
    ELSE IF a = b THEN FALSE
    ELSE IF a = PInf \/ b = NInf THEN TRUE
    ELSE IF a = NInf \/ b = PInf THEN FALSE
    ELSE Val(a) > Val(b)

\* A size_t or an integer literal converted to double.
FromInt(k) == Norm(k * Scale)

\* exp: ExpTable[z - ExpLo + 1] is Scale * exp(z / Scale) rounded, for the
\* arguments whose result is neither 0 nor beyond MaxFinite.
ExpLo == -55
ExpTable ==
    << 1, 1, 1, 1, 1, 1, 1, 1, 1, 1, 1, 1, 1, 1, 1, 1, 1, 1, 2, 2, 2, 2, 2, 2,
       2, 2, 3, 3, 3, 3, 3, 4, 4, 4, 4, 5, 5, 5, 6, 6, 6, 7, 7, 8, 8, 9, 9, 10,
       10, 11, 12, 12, 13, 14, 15, 16, 17, 18, 19, 21, 22, 23, 25, 26, 28, 30,
       32, 34, 36, 38, 41, 43, 46, 49, 52, 56, 59, 63, 67, 72, 76, 81, 86, 92,
       98, 104, 111, 118, 126, 134, 143, 152, 162, 172, 183, 195, 207, 221,
       235, 250, 266, 284, 302, 321, 342, 364, 388, 413, 439, 468, 498, 530,
       564, 600, 639, 680, 724, 771, 821, 874, 930, 990, 1054, 1122, 1194,
       1271, 1353, 1440, 1533, 1632, 1737, 1849, 1969, 2096, 2231, 2375, 2528,
       2691, 2864, 3049, 3246, 3455, 3678, 3915 >>

Exp(a) ==
    IF IsNaN(a) THEN NaN
    ELSE IF a = PInf THEN PInf
    ELSE IF a = NInf THEN Zero
    ELSE IF Val(a) < ExpLo THEN Zero
    ELSE IF Val(a) - ExpLo + 1 > Len(ExpTable) THEN PInf
    ELSE Norm(ExpTable[Val(a) - ExpLo + 1])

\* log: LogTable[x] is Scale * ln(x / Scale) rounded, for x in 1 .. 4 * Scale.
LogTable ==
    << -44, -33, -27, -22, -19, -16, -13, -11, -9, -8, -6, -5, -3, -2, -1, 0,
       1, 2, 3, 4, 4, 5, 6, 6, 7, 8, 8, 9, 10, 10, 11, 11, 12, 12, 13, 13, 13,
       14, 14, 15, 15, 15, 16, 16, 17, 17, 17, 18, 18, 18, 19, 19, 19, 19, 20,
       20, 20, 21, 21, 21, 21, 22, 22, 22 >>

Log(a) ==
    IF IsNaN(a) \/ a = NInf THEN NaN
    ELSE IF a = PInf THEN PInf
    ELSE IF Val(a) < 0 THEN NaN
    ELSE IF Val(a) = 0 THEN NInf
    ELSE Fin(LogTable[Val(a)])

\* sqrt of a finite non-negative number, rounded to the nearest unit:
\* r with (2r - 1)^2 <= 4 * Scale * v < (2r + 1)^2.
Sqrt(a) ==
    IF IsNaN(a) \/ a = NInf THEN NaN
    ELSE IF a = PInf THEN PInf
    ELSE IF Val(a) < 0 THEN NaN
    ELSE IF Val(a) = 0 THEN Zero
    ELSE Fin(CHOOSE r \in 1 .. (Val(a) \div 4 + Scale + 1) :
                /\ (2 * r - 1) * (2 * r - 1) <= 4 * Scale * Val(a)
                /\ 4 * Scale * Val(a) < (2 * r + 1) * (2 * r + 1))

(***************************************************************************)
(* Vectors are sequences of numbers; a matrix is the sequence of its rows. *)
(***************************************************************************)
RECURSIVE SumFrom(_, _, _)
SumFrom(s, i, acc) ==
    IF i > Len(s) THEN acc ELSE SumFrom(s, i + 1, Add(acc, s[i]))

Sum(s) == SumFrom(s, 1, Zero)

\* A sequence with its coefficients evaluated, as an Eigen object holds them.
Vec(f) == SubSeq(f, 1, Len(f))

VecZero(n) == Vec([i \in 1 .. n |-> Zero])
MatZero(r, c) == Vec([i \in 1 .. r |-> Vec([j \in 1 .. c |-> Zero])])
VecAdd(a, b) == Vec([i \in 1 .. Len(a) |-> Add(a[i], b[i])])
VecSub(a, b) == Vec([i \in 1 .. Len(a) |-> Sub(a[i], b[i])])
MatAdd(A, B) == Vec([i \in 1 .. Len(A) |-> VecAdd(A[i], B[i])])
Dot(a, b) == Sum(Vec([i \in 1 .. Len(a) |-> Mul(a[i], b[i])]))
MatVec(W, x) == Vec([i \in 1 .. Len(W) |-> Dot(W[i], x)])
Cols(W) == IF Len(W) = 0 THEN 0 ELSE Len(W[1])
TransposeVec(W, d) ==
    Vec([j \in 1 .. Cols(W) |-> Sum(Vec([i \in 1 .. Len(W) |-> Mul(W[i][j], d[i])]))])
Outer(d, a) == Vec([i \in 1 .. Len(d) |-> Vec([j \in 1 .. Len(a) |-> Mul(d[i], a[j])])])
\* Eigen's norm(): the square root of the sum of the squared coefficients.
FrobeniusNorm(W) ==
    Sqrt(Sum(Vec([i \in 1 .. Len(W) |-> Dot(W[i], W[i])])))

(***************************************************************************)
(* Activation functions.  calculate_derivative returns a record: thrown   *)
(* says that the call raised std::logic_error instead of returning.       *)
(***************************************************************************)
ActivationFunctions == {"LOGISTIC", "SOFTMAX"}

Logistic_calculate(z) ==
    Vec([i \in 1 .. Len(z) |-> Div(One, Add(Exp(Neg(z[i])), One))])

Logistic_calculate_derivative(z) ==
    LET f == Logistic_calculate(z)
    IN  Vec([i \in 1 .. Len(z) |-> Mul(f[i], Sub(One, f[i]))])

Softmax_calculate(z) ==
    LET zExp == Vec([i \in 1 .. Len(z) |-> Exp(z[i])])
        total == Sum(zExp)
    IN  Vec([i \in 1 .. Len(z) |-> Div(zExp[i], total)])

\* A derivative that is returned: the diagonal s * (1 - s).
Softmax_calculate_derivative_diagonal(z) ==
    [thrown |-> FALSE,
     value |-> LET f == Softmax_calculate(z)
               IN  Vec([i \in 1 .. Len(z) |-> Mul(f[i], Sub(One, f[i]))])]

\* throw std::logic_error
Softmax_calculate_derivative(z) == [thrown |-> TRUE, value |-> <<>>]

Activation_calculate(activationFunction, z) ==
    IF activationFunction = "Logistic" THEN Logistic_calculate(z)
    ELSE Softmax_calculate(z)

Activation_calculate_derivative(activationFunction, z) ==
    IF activationFunction = "Logistic"
    THEN [thrown |-> FALSE, value |-> Logistic_calculate_derivative(z)]
    ELSE Softmax_calculate_derivative(z)

(***************************************************************************)
(* Cost functions.                                                         *)
(***************************************************************************)
CostFunctions == {"QUADRATIC", "CROSSENTROPY"}

Half == Div(One, FromInt(2))

Quadratic_calculate(x, t) ==
    LET d == VecSub(t, x)
        norm == Sqrt(Dot(d, d))
    IN  Mul(Half, Mul(norm, norm))

Quadratic_calculate_derivative(x, t) == VecSub(x, t)

\* The sum without the replacement of the values that are not finite.
CrossEntropy_calculate_unfiltered(x, t) ==
    Sum(Vec([i \in 1 .. Len(x) |->
            Sub(Mul(Neg(t[i]), Log(x[i])),
                Mul(Sub(One, t[i]), Log(Sub(One, x[i]))))]))

CrossEntropy_calculate(x, t) ==
    LET res == Vec([i \in 1 .. Len(x) |->
                  Sub(Mul(Neg(t[i]), Log(x[i])),
                      Mul(Sub(One, t[i]), Log(Sub(One, x[i]))))])
    IN  Sum(Vec([i \in 1 .. Len(x) |-> IF IsFinite(res[i]) THEN res[i] ELSE Zero]))

CrossEntropy_calculate_derivative(x, t) ==
    Vec([i \in 1 .. Len(x) |->
        Div(Sub(x[i], t[i]), Mul(x[i], Sub(One, x[i])))])

Cost_calculate(costFunction, x, t) ==
    IF costFunction = "QuadraticCostFunction" THEN Quadratic_calculate(x, t)
    ELSE CrossEntropy_calculate(x, t)

Cost_calculate_derivative(costFunction, x, t) ==
    IF costFunction = "QuadraticCostFunction" THEN Quadratic_calculate_derivative(x, t)
    ELSE CrossEntropy_calculate_derivative(x, t)

(***************************************************************************)
(* The random number engine.  std::default_random_engine is a linear      *)
(* congruential engine x' = a * x mod m; the model keeps the recurrence   *)
(* with a small modulus.  A draw returns the new state.                   *)
(***************************************************************************)
RngModulus == 31
RngMultiplier == 3
FixedSeed == 17111993

SeedEngine(s) == IF s % RngModulus = 0 THEN 1 ELSE s % RngModulus

Draw(engine) == (RngMultiplier * engine) % RngModulus

\* The values std::normal_distribution<double>(0, 1) hands out, as a table
\* indexed by the engine's draw: -1.5, -0.5, 0, 0.5, 1.5.
NormalTable == << Fin(-24), Fin(-8), Fin(0), Fin(8), Fin(24) >>

NormalSample(engine) == NormalTable[(engine % Len(NormalTable)) + 1]

\* k calls of layerParamsInitializer: the values, in call order, and the
\* engine after them.
RECURSIVE Generate(_, _, _)
Generate(engine, k, acc) ==
    IF k = 0 THEN [engine |-> engine, values |-> acc]
    ELSE Generate(Draw(engine), k - 1, Append(acc, NormalSample(Draw(engine))))

(***************************************************************************)
(* Layer.                                                                  *)
(***************************************************************************)
Layer(size, activationFunction) ==
    [size |-> size, activationFunction |-> activationFunction,
     bias |-> <<>>, weight |-> <<>>]

\* initialize(previousLayerSize, generatorFunc): the bias is drawn first,
\* then the weight, coefficient by coefficient in column-major order.
Layer_initialize(layer, previousLayerSize, engine) ==
    LET b == Generate(engine, layer.size, <<>>)
        w == Generate(b.engine, layer.size * previousLayerSize, <<>>)
        root == Sqrt(FromInt(previousLayerSize))
    IN  [layer |-> [layer EXCEPT
                      !.bias = b.values,
                      !.weight = Vec([i \in 1 .. layer.size |->
                                    Vec([j \in 1 .. previousLayerSize |->
                                       Div(w.values[(j - 1) * layer.size + i], root)])])],
         engine |-> w.engine]

\* initialize(bias, weight): direct assignment.
Layer_assign(layer, bias, weight) ==
    [layer EXCEPT !.bias = bias, !.weight = weight]

\* The weighted input without the bias.
Layer_feedForwardValue_noBias(layer, x) ==
    Activation_calculate(layer.activationFunction, MatVec(layer.weight, x))

\* feedForward(x): the overload that returns the activation.
Layer_feedForwardValue(layer, x) ==
    Activation_calculate(layer.activationFunction,
                         VecAdd(MatVec(layer.weight, x), layer.bias))

\* feedForward(a, z, x): the overload that stores z and a.
Layer_feedForward(layer, x) ==
    LET z == VecAdd(MatVec(layer.weight, x), layer.bias)
    IN  [z |-> z, a |-> Activation_calculate(layer.activationFunction, z)]

\* The error signal passed on unmultiplied by the activation's derivative.
Layer_feedBackward_noDerivative(layer, deltaPrevious, a, z) ==
    LET sigmaDerivative ==
            Activation_calculate_derivative(layer.activationFunction, z)
    IN  IF sigmaDerivative.thrown
        THEN [thrown |-> TRUE, delta_nabla_b |-> <<>>, delta_nabla_w |-> <<>>,
              deltaPrevious |-> deltaPrevious]
        ELSE [thrown |-> FALSE,
              delta_nabla_b |-> deltaPrevious,
              delta_nabla_w |-> Outer(deltaPrevious, a),
              deltaPrevious |-> TransposeVec(layer.weight, deltaPrevious)]

Layer_feedBackward(layer, deltaPrevious, a, z) ==
    LET sigmaDerivative ==
            Activation_calculate_derivative(layer.activationFunction, z)
        delta == Vec([i \in 1 .. Len(deltaPrevious) |->
                    Mul(deltaPrevious[i], sigmaDerivative.value[i])])
    IN  IF sigmaDerivative.thrown
        THEN [thrown |-> TRUE, delta_nabla_b |-> <<>>, delta_nabla_w |-> <<>>,
              deltaPrevious |-> deltaPrevious]
        ELSE [thrown |-> FALSE,
              delta_nabla_b |-> delta,
              delta_nabla_w |-> Outer(delta, a),
              deltaPrevious |-> TransposeVec(layer.weight, delta)]

\* The regularization term of the weight update.
WeightDecay(regularizationRatio, w) == Mul(regularizationRatio, w)

\* The bias update of updateBiasWeight.
\* The bias decayed as the weight is.
UpdatedBias_decayed(bias, nabla_b, lrRatio, regRatio) ==
    Vec([i \in 1 .. Len(bias) |->
        Add(bias[i], Add(Mul(lrRatio, nabla_b[i]), Mul(regRatio, bias[i])))])

UpdatedBias(bias, nabla_b, learningRateRatio, regularizationRatio) ==
    Vec([i \in 1 .. Len(bias) |-> Add(bias[i], Mul(learningRateRatio, nabla_b[i]))])

Layer_updateBiasWeight(layer, nabla_b, nabla_w, learningRateRatio, regularizationRatio) ==
    [layer EXCEPT
       !.bias = UpdatedBias(layer.bias, nabla_b, learningRateRatio, regularizationRatio),
       !.weight = Vec([i \in 1 .. Len(layer.weight) |->
                     Vec([j \in 1 .. Len(layer.weight[i]) |->
                        Add(layer.weight[i][j],
                            Add(Mul(learningRateRatio, nabla_w[i][j]),
                                WeightDecay(regularizationRatio, layer.weight[i][j])))])])]

(***************************************************************************)
(* Network: the pure parts.                                                *)
(***************************************************************************)
RECURSIVE Network_feedForwardFrom(_, _, _)
Network_feedForwardFrom(layers, iLayer, a) ==
    IF iLayer > Len(layers) THEN a
    ELSE Network_feedForwardFrom(layers, iLayer + 1,
                                 Layer_feedForwardValue(layers[iLayer], a))

Network_feedForward(layers, x) == Network_feedForwardFrom(layers, 1, x)

\* One call of a layer's function by backPropagate, as the layer sees it:
\* the layer, the error signal, the activation and the pre-activation it is
\* given (or stores), what it hands back, and whether it raised.
LayerCall(function, iLayer, delta, a, z, out, thrown) ==
    [function |-> function, layer |-> iLayer, delta |-> delta, a |-> a, z |-> z,
     out |-> out, thrown |-> thrown]

\* The forward pass of backPropagate: zs[i] and activations[i + 1] for every
\* layer i, activations[1] being the input.  calls lists the calls made.
RECURSIVE ForwardPass(_, _, _, _, _)
ForwardPass(layers, iLayer, zs, activations, calls) ==
    IF iLayer > Len(layers)
    THEN [zs |-> zs, activations |-> activations, calls |-> calls]
    ELSE LET r == Layer_feedForward(layers[iLayer], activations[iLayer])
         IN  ForwardPass(layers, iLayer + 1, Append(zs, r.z),
                         Append(activations, r.a),
                         Append(calls,
                                LayerCall("feedForward", iLayer, <<>>,
                                          activations[iLayer], r.z, r.a, FALSE)))

\* The backward pass: layers iLayer, iLayer - 1, ..., 1.
RECURSIVE BackwardPass(_, _, _, _, _, _, _)
BackwardPass(layers, iLayer, delta, fwd, dnb, dnw, calls) ==
    IF iLayer = 0
    THEN [thrown |-> FALSE, delta_nabla_b |-> dnb, delta_nabla_w |-> dnw,
          calls |-> calls]
    ELSE LET r == Layer_feedBackward(layers[iLayer], delta,
                                     fwd.activations[iLayer], fwd.zs[iLayer])
             made == Append(calls,
                            LayerCall("feedBackward", iLayer, delta,
                                      fwd.activations[iLayer], fwd.zs[iLayer],
                                      r.deltaPrevious, r.thrown))
         IN  IF r.thrown
             THEN [thrown |-> TRUE, delta_nabla_b |-> dnb, delta_nabla_w |-> dnw,
                   calls |-> made]
             ELSE BackwardPass(layers, iLayer - 1, r.deltaPrevious, fwd,
                               [dnb EXCEPT ![iLayer] = r.delta_nabla_b],
                               [dnw EXCEPT ![iLayer] = r.delta_nabla_w], made)

\* A backward pass seeded with the final activation itself.
backPropagate_unseeded(layers, costFunction, delta_nabla_b, delta_nabla_w, x, y) ==
    LET fwd == ForwardPass(layers, 1, <<>>, <<x>>, <<>>)
    IN  BackwardPass(layers, Len(layers), fwd.activations[Len(layers) + 1], fwd,
                     delta_nabla_b, delta_nabla_w, fwd.calls)

backPropagate(layers, costFunction, delta_nabla_b, delta_nabla_w, x, y) ==
    LET fwd == ForwardPass(layers, 1, <<>>, <<x>>, <<>>)
        delta == Cost_calculate_derivative(costFunction,
                                           fwd.activations[Len(layers) + 1], y)
    IN  BackwardPass(layers, Len(layers), delta, fwd, delta_nabla_b, delta_nabla_w,
                     fwd.calls)

\* Accumulators that start at one.
ZeroNabla_b_ones(layers) ==
    Vec([i \in 1 .. Len(layers) |-> Vec([j \in 1 .. layers[i].size |-> One])])

\* The accumulators of updateParameters, zeroed.
ZeroNabla_b(layers) == Vec([i \in 1 .. Len(layers) |-> VecZero(layers[i].size)])

ZeroNabla_w(layers, inputSize) ==
    Vec([i \in 1 .. Len(layers) |->
        MatZero(layers[i].size,
                IF i = 1 THEN inputSize ELSE layers[i - 1].size)])

(***************************************************************************)
(* Network: conversions between outputs and predictions, evaluation.       *)
(* PREDICTION is size_t, as Manager instantiates it.                      *)
(***************************************************************************)
\* What static_cast<size_t> of a NaN, an infinity or a value <= -1 (undefined
\* behaviour) can give: 0 or the hardware's out-of-range pattern.
UBCastValues == {0, 2147483647}

CastToSizeT(a, ubCast) ==
    IF IsFinite(a) /\ Val(a) > -Scale
    THEN (IF Val(a) >= 0 THEN Val(a) \div Scale ELSE 0)
    ELSE ubCast

\* maxCoeff(&index): the index (from 0) of the first coefficient that no
\* later one exceeds.
RECURSIVE MaxCoeffFrom(_, _, _)
MaxCoeffFrom(v, i, best) ==
    IF i > Len(v) THEN best - 1
    ELSE MaxCoeffFrom(v, i + 1, IF Gt(v[i], v[best]) THEN i ELSE best)

output2prediction(output, ubCast) ==
    IF Len(output) > 1 THEN MaxCoeffFrom(output, 2, 1)
    ELSE CastToSizeT(output[1], ubCast)

\* prediction2output: oob says that the write output(index) = 1 fell outside
\* the vector (undefined behaviour); output is then the vector such a write
\* leaves behind when it is not caught.
prediction2output(lastLayerSize, prediction, ubCast) ==
    IF Len(prediction) > 1 THEN [oob |-> FALSE, output |-> prediction]
    ELSE LET index == CastToSizeT(prediction[1], ubCast)
         IN  IF index < lastLayerSize
             THEN [oob |-> FALSE,
                   output |-> [VecZero(lastLayerSize) EXCEPT ![index + 1] = One]]
             ELSE [oob |-> TRUE, output |-> VecZero(lastLayerSize)]

\* A train that hands its own lambda on to the evaluation.
EvaluationLambda_passed(lambda) == lambda

\* The lambda that train passes to calcAccuracyAndCost: none, so the
\* parameter's default.
EvaluationLambda(lambda) == Zero

RECURSIVE EvaluateFrom(_, _, _, _, _, _)
EvaluateFrom(layers, costFunction, data, i, acc, ubCast) ==
    IF i > Len(data) THEN acc
    ELSE LET predictedOutput == Network_feedForward(layers, data[i].first)
             prediction == output2prediction(predictedOutput, ubCast)
             expectedOutput == prediction2output(layers[Len(layers)].size,
                                                 data[i].second, ubCast)
             expected == output2prediction(data[i].second, ubCast)
         IN  EvaluateFrom(layers, costFunction, data, i + 1,
               [oob |-> acc.oob \/ expectedOutput.oob,
                correct |-> IF prediction = expected
                            THEN acc.correct + 1 ELSE acc.correct,
                cost |-> Add(acc.cost,
                             Cost_calculate(costFunction, predictedOutput,
                                            expectedOutput.output))],
               ubCast)

\* The cost as a mean over the set.
calcAccuracyAndCost_mean(layers, costFunction, data, l, ubCast) ==
    LET r == EvaluateFrom(layers, costFunction, data, 1,
                          [oob |-> FALSE, correct |-> 0, cost |-> Zero], ubCast)
    IN  [oob |-> r.oob, correct |-> r.correct,
         cost |-> Div(r.cost, FromInt(Len(data)))]

calcAccuracyAndCost(layers, costFunction, data, lambda, ubCast) ==
    LET r == EvaluateFrom(layers, costFunction, data, 1,
                          [oob |-> FALSE, correct |-> 0, cost |-> Zero], ubCast)
        costRegularization ==
            Sum(Vec([i \in 1 .. Len(layers) |->
                   LET norm == FrobeniusNorm(layers[i].weight)
                   IN  Mul(norm, norm)]))
    IN  [oob |-> r.oob, correct |-> r.correct,
         cost |-> Add(r.cost, Mul(Div(lambda, FromInt(2)), costRegularization))]

(***************************************************************************)
(* StochasticGradientDescent: the shuffle and the batch swaps.             *)
(***************************************************************************)
Swap(seq, i, j) == [seq EXCEPT ![i] = seq[j], ![j] = seq[i]]

\* std::shuffle: position i is exchanged with a drawn position in 1 .. i.
RECURSIVE ShuffleFrom(_, _, _)
ShuffleFrom(seq, i, engine) ==
    IF i > Len(seq) THEN [seq |-> seq, engine |-> engine]
    ELSE ShuffleFrom(Swap(seq, i, (Draw(engine) % i) + 1), i + 1, Draw(engine))

\* A shuffle that copies the first sample over the second.
Shuffle_overwrite(seq, engine) ==
    [seq |-> IF Len(seq) >= 2 THEN [seq EXCEPT ![2] = seq[1]] ELSE seq,
     engine |-> Draw(engine)]

Shuffle(seq, engine) == ShuffleFrom(seq, 2, engine)

\* A value-initialized DataLabel_Pair; id 0 names no sample.
Placeholder == [first |-> <<>>, second |-> <<>>, id |-> 0]

NewBatch(batchSize) == Vec([i \in 1 .. batchSize |-> Placeholder])

\* Every batch taken from the head of the set.
InitialBatchIndex_head(i, bSize) == 0

InitialBatchIndex(iBatch, batchSize) == iBatch * batchSize

\* std::swap_ranges of seq[from + 1 .. from + Len(other)] with other.
SwapRanges(seq, from, other) ==
    [seq |-> Vec([i \in 1 .. Len(seq) |->
                IF i > from /\ i <= from + Len(other) THEN other[i - from]
                ELSE seq[i]]),
     other |-> Vec([i \in 1 .. Len(other) |-> seq[from + i]])]

\* No batch of any set.
NumberOfBatches_none(nTraining, bSize) == 0

\* One batch at most.
NumberOfBatches_short(nTraining, bSize) == IF nTraining >= bSize THEN 1 ELSE 0

NumberOfBatches(nTraining, batchSize) == nTraining \div batchSize

(***************************************************************************)
(* Data sets.  Sample i of a set with f features and labels of length l:  *)
(* the features are the low f bits of i; a label of length 1 is the class *)
(* (i + 1) mod 2 as a scalar, a longer label is the one-hot vector of     *)
(* class (i - 1) mod l.  id is a tag of the model: the sample's position  *)
(* in the caller's set when the set was handed to train.                  *)
(***************************************************************************)
Feature(i, f) == Vec([j \in 1 .. f |-> FromInt((i \div (2 ^ (j - 1))) % 2)])

LabelOf(i, l) ==
    IF l = 1 THEN << FromInt((i + 1) % 2) >>
    ELSE Vec([j \in 1 .. l |-> IF j = ((i - 1) % l) + 1 THEN One ELSE Zero])

Sample(i, f, l) == [first |-> Feature(i, f), second |-> LabelOf(i, l), id |-> i]

Dataset(f, l, n) == Vec([i \in 1 .. n |-> Sample(i, f, l)])

(***************************************************************************)
(* The factories.  An object is named by its class; an enum value is named *)
(* by its enumerator, Unlisted being a value of the enum's underlying type *)
(* that no enumerator has.  A call gives [thrown, value]: thrown is the    *)
(* message of the std::logic_error, or NoError.                            *)
(***************************************************************************)
Logistic_Name == "logistic"
Softmax_Name == "softmax"
QuadraticCostFunction_Name == "quadratic"
CrossEntropy_Name == "crossentropy"
StochasticGradientDescent_Name == "stochastic"

Optimizers == {"SGD"}
Unlisted == "unlisted"
NoError == [what |-> "", name |-> ""]
NoValue == "none"
Returned(v) == [thrown |-> NoError, value |-> v]
Thrown(what, name) == [thrown |-> [what |-> what, name |-> name], value |-> NoValue]

\* Softmax named as Logistic is.
getName_shared(object) ==
    CASE object = "Logistic" -> Logistic_Name
      [] object = "Softmax" -> Logistic_Name
      [] object = "QuadraticCostFunction" -> QuadraticCostFunction_Name
      [] object = "CrossEntropy" -> CrossEntropy_Name
      [] object = "StochasticGradientDescent" -> StochasticGradientDescent_Name

\* getName() of an activation function, a cost function or an optimizer.
getName(object) ==
    CASE object = "Logistic" -> Logistic_Name
      [] object = "Softmax" -> Softmax_Name
      [] object = "QuadraticCostFunction" -> QuadraticCostFunction_Name
      [] object = "CrossEntropy" -> CrossEntropy_Name
      [] object = "StochasticGradientDescent" -> StochasticGradientDescent_Name

ActivationFunctionFactory_create(name) ==
    CASE name = "LOGISTIC" -> Returned("Logistic")
      [] name = "SOFTMAX" -> Returned("Softmax")
      [] OTHER -> Thrown("ActivationFunctionFactory::create : unimplemented activation function", "")

\* Every name taken for Logistic's.
ActivationFunctionFactory_str2enum_lenient(name) ==
    IF name = Softmax_Name THEN Returned("SOFTMAX") ELSE Returned("LOGISTIC")

ActivationFunctionFactory_str2enum(name) ==
    IF name = Logistic_Name THEN Returned("LOGISTIC")
    ELSE IF name = Softmax_Name THEN Returned("SOFTMAX")
    ELSE Thrown("ActivationFunctionFactory::str2enum : unknown activation function name ", name)

CostFunctionFactory_create(name) ==
    CASE name = "QUADRATIC" -> Returned("QuadraticCostFunction")
      [] name = "CROSSENTROPY" -> Returned("CrossEntropy")
      [] OTHER -> Thrown("CostFunctionFactory::create : unimplemented cost function", "")

CostFunctionFactory_str2enum(name) ==
    IF name = QuadraticCostFunction_Name THEN Returned("QUADRATIC")
    ELSE IF name = CrossEntropy_Name THEN Returned("CROSSENTROPY")
    ELSE Thrown("CostFunctionFactory::str2enum : unknown cost function name ", name)

OptimizerFactory_create(name) ==
    CASE name = "SGD" -> Returned("StochasticGradientDescent")
      [] OTHER -> Thrown("OptimizerFactory::create : unimplemented optimizer", "")

OptimizerFactory_str2enum(name) ==
    IF name = StochasticGradientDescent_Name THEN Returned("SGD")
    ELSE Thrown("OptimizerFactory::str2enum : unknown optimizer name ", name)

\* The enumerators of a factory's enum.
Enumerators(factory) ==
    CASE factory = "ActivationFunctionFactory" -> ActivationFunctions
      [] factory = "CostFunctionFactory" -> CostFunctions
      [] factory = "OptimizerFactory" -> Optimizers

Factories == {"ActivationFunctionFactory", "CostFunctionFactory", "OptimizerFactory"}

Factory_create(factory, name) ==
    CASE factory = "ActivationFunctionFactory" -> ActivationFunctionFactory_create(name)
      [] factory = "CostFunctionFactory" -> CostFunctionFactory_create(name)
      [] factory = "OptimizerFactory" -> OptimizerFactory_create(name)

Factory_str2enum(factory, name) ==
    CASE factory = "ActivationFunctionFactory" -> ActivationFunctionFactory_str2enum(name)
      [] factory = "CostFunctionFactory" -> CostFunctionFactory_str2enum(name)
      [] factory = "OptimizerFactory" -> OptimizerFactory_str2enum(name)

(***************************************************************************)
(* Network objects and the builder.                                        *)
(***************************************************************************)
\* Network(inputSize, costFunction, optimizer, isTrueRandom).  The engine is
\* copied into layerParamsInitializer by std::bind and into the optimizer by
\* Optimizer::initialize; each copy then runs on its own.
Network(inputSize, costFunction, seed) ==
    [inputSize |-> inputSize,
     costFunction |-> costFunction,
     layers |-> <<>>,
     rngEngine |-> SeedEngine(seed),
     initEngine |-> SeedEngine(seed),
     optEngine |-> SeedEngine(seed),
     trainingCost |-> <<>>,
     trainingAccuracy |-> <<>>,
     evaluationCost |-> <<>>,
     evaluationAccuracy |-> <<>>,
     training |-> <<>>,
     batch |-> <<>>,
     nabla_b |-> <<>>,
     nabla_w |-> <<>>,
     shuffled |-> <<>>,
     batchLog |-> <<>>]

\* Every layer initialized against the network's input size.
addLayer_inputSize(n, layer, isNotInitialized) ==
    IF isNotInitialized
    THEN LET r == Layer_initialize(layer, n.inputSize, n.initEngine)
         IN  [n EXCEPT !.layers = Append(@, r.layer), !.initEngine = r.engine]
    ELSE [n EXCEPT !.layers = Append(@, layer)]

\* addLayer(layer, isNotInitialized)
addLayer(n, layer, isNotInitialized) ==
    IF isNotInitialized
    THEN LET previousLayerSize ==
                 IF Len(n.layers) = 0 THEN n.inputSize
                 ELSE n.layers[Len(n.layers)].size
             r == Layer_initialize(layer, previousLayerSize, n.initEngine)
         IN  [n EXCEPT !.layers = Append(@, r.layer), !.initEngine = r.engine]
    ELSE [n EXCEPT !.layers = Append(@, layer)]

\* NetworkBuilder::createLayer
createLayer(size, activation) ==
    Layer(size, ActivationFunctionFactory_create(activation).value)

(***************************************************************************)
(* NetworkBuilder::save and load.  A number is written as a decimal text   *)
(* of Digits10 significant digits, here the token <<m, e>> for m * 10^e,   *)
(* and inf and nan by name; std::stod gives the nearest value to the text. *)
(* Digits10 is to the numbers of this model what Eigen::FullPrecision's    *)
(* 15 digits are to a double: fewer than tell every two values apart.      *)
(***************************************************************************)
Digits10 == 2

RECURSIVE Pow10(_)
Pow10(k) == IF k = 0 THEN 1 ELSE 10 * Pow10(k - 1)

RECURSIVE NumDigits(_)
NumDigits(n) == IF n < 10 THEN 1 ELSE 1 + NumDigits(n \div 10)

\* operator<< of a double at precision Digits10.  Val(a) / Scale is
\* Val(a) * 625 ten-thousandths.
FormatDouble(a) ==
    IF IsNaN(a) THEN <<"nan", 0, 0>>
    ELSE IF a = PInf THEN <<"inf", 0, 0>>
    ELSE IF a = NInf THEN <<"-inf", 0, 0>>
    ELSE LET t == Abs(Val(a)) * (10000 \div Scale)
             k == NumDigits(t) - Digits10
         IN  IF k <= 0 THEN <<"number", Sgn(Val(a)) * t, -4>>
             ELSE <<"number", Sgn(Val(a)) * RoundDiv(t, Pow10(k)), k - 4>>

\* std::stod
ParseDouble(cell) ==
    IF cell[1] = "nan" THEN NaN
    ELSE IF cell[1] = "inf" THEN PInf
    ELSE IF cell[1] = "-inf" THEN NInf
    ELSE IF cell[3] >= 0 THEN Norm(cell[2] * Pow10(cell[3]) * Scale)
    ELSE Norm(Sgn(cell[2]) * RoundDiv(Abs(cell[2]) * Scale, Pow10(-cell[3])))

\* The coefficients of a matrix row after row, as IOFormat's separators put
\* them on one line.
FormatMatrix(W) ==
    IF Len(W) = 0 THEN <<>>
    ELSE Vec([k \in 1 .. Len(W) * Len(W[1]) |->
            FormatDouble(W[((k - 1) \div Len(W[1])) + 1][((k - 1) % Len(W[1])) + 1])])

FormatVector(b) == Vec([k \in 1 .. Len(b) |-> FormatDouble(b[k])])

\* save: the header line and three lines a layer.
save(n) ==
    [header |-> <<n.inputSize, getName(n.costFunction)>>,
     layers |-> Vec([i \in 1 .. Len(n.layers) |->
                  [bias |-> FormatVector(n.layers[i].bias),
                   weight |-> FormatMatrix(n.layers[i].weight),
                   activation |-> getName(n.layers[i].activationFunction)]])]

\* Eigen::Map<MatrixXd>(values, rows, cols): column after column.
Map(values, rows, cols) ==
    Vec([i \in 1 .. rows |-> Vec([j \in 1 .. cols |-> values[(j - 1) * rows + i]])])

\* The mapped matrix taken as it is.
Transpose_none(M) == M

Transpose(M) ==
    IF Len(M) = 0 THEN <<>>
    ELSE Vec([j \in 1 .. Len(M[1]) |-> Vec([i \in 1 .. Len(M) |-> M[i][j]])])

\* One layer of load: the bias line, the weight line, the activation line.
LoadLayer(lines) ==
    LET bias == Vec([k \in 1 .. Len(lines.bias) |-> ParseDouble(lines.bias[k])])
        values == Vec([k \in 1 .. Len(lines.weight) |-> ParseDouble(lines.weight[k])])
        weight == Transpose(Map(values, Len(values) \div Len(bias), Len(bias)))
        activation == ActivationFunctionFactory_str2enum(lines.activation)
    IN  [thrown |-> activation.thrown,
         layer |-> IF activation.thrown # NoError THEN <<>>
                   ELSE Layer_assign(createLayer(Len(bias), activation.value),
                                     bias, weight)]

\* network->addLayer(layer, false) for the layers from the i-th on.
RECURSIVE AddLayers(_, _, _)
AddLayers(n, layers, i) ==
    IF i > Len(layers) THEN n
    ELSE AddLayers(addLayer(n, layers[i], FALSE), layers, i + 1)

\* load: the network built from the file, with the builder's optimizer and
\* seed; thrown is the error of a name no factory knows.
load(f, seed) ==
    LET costFunction == CostFunctionFactory_str2enum(f.header[2])
        layers == Vec([i \in 1 .. Len(f.layers) |-> LoadLayer(f.layers[i])])
        failed == {i \in 1 .. Len(layers) : layers[i].thrown # NoError}
    IN  IF costFunction.thrown # NoError
        THEN [thrown |-> costFunction.thrown, network |-> <<>>]
        ELSE IF failed # {}
        THEN [thrown |-> layers[CHOOSE i \in failed : \A j \in failed : i <= j].thrown,
              network |-> <<>>]
        ELSE [thrown |-> NoError,
              network |->
                 AddLayers(Network(f.header[1],
                                   CostFunctionFactory_create(costFunction.value).value,
                                   seed),
                           Vec([i \in 1 .. Len(layers) |-> layers[i].layer]), 1)]

(***************************************************************************)
(* Bounds of the model and the values the calls are tried with.            *)
(***************************************************************************)
MaxTrain == 3
MaxBatch == 3
MaxEpoch == 2
EvalSize == 1

\* How many layers a network is given, and how often train is called on it.
LayerCounts == {1, 2}
TrainCalls == {1, 2}
InputSizes == {2}
FeatureSizes == {1, 2}
LayerSizes == {1, 2}
\* What std::random_device may return.
RandomSeeds == {5, 7}
Etas == {FromInt(2)}
\* The strings and the enum values the factories are asked about.
NameStrings == {"logistic", "softmax", "quadratic", "crossentropy", "stochastic",
                "", "Logistic", "sigmoid", "sgd", "quadratic "}
Lambdas == {One}

(***************************************************************************)
(* State.  nets[k] is one Network object together with its optimizer and  *)
(* the data of its caller; Spec runs one network, SpecTwin runs two that  *)
(* receive the same calls.                                                 *)
(*   pc       where the train call stands: "idle" (no call active),       *)
(*            "epoch" (top of the epoch loop), "batch" (top of optimize's *)
(*            batch loop), "backprop" (inside updateParameters),          *)
(*            "saved", "loaded", "aborted" (the process was aborted),     *)
(*            "called" (a single function was called and has come back)   *)
(*   outcome  how the last train call ended                               *)
(***************************************************************************)
VARIABLES nets, isTrueRandom, pc, outcome, calls, evaluation,
          nEpoch, batchSize, eta, lambda,
          nBatches, learningRateRatio, regularizationRatio,
          iEpoch, iBatch, idx, file, loaded, lookup,
          lenAtCall, passes, updates, recorded

vars == <<nets, isTrueRandom, pc, outcome, calls, evaluation,
          nEpoch, batchSize, eta, lambda,
          nBatches, learningRateRatio, regularizationRatio,
          iEpoch, iBatch, idx, file, loaded, lookup,
          lenAtCall, passes, updates, recorded>>

trainArgs == <<nEpoch, batchSize, eta, lambda>>
trainLocals == <<nBatches, learningRateRatio, regularizationRatio,
                 iEpoch, iBatch, idx>>
ghosts == <<lenAtCall, passes, updates, recorded>>

Nets == DOMAIN nets
net == nets[1]

\* The flag ignored: std::random_device asked in either mode.
SeedChoices_random(trueRandom) == RandomSeeds

\* The seed Network's constructor gives the engine.
SeedChoices(trueRandom) == IF trueRandom THEN RandomSeeds ELSE {FixedSeed}

InitWith(ids) ==
    /\ isTrueRandom \in BOOLEAN
    /\ \E inputSize \in InputSizes, costFunction \in CostFunctions :
         \E seeds \in [ids -> SeedChoices(isTrueRandom)] :
            nets = [k \in ids |->
                      Network(inputSize, CostFunctionFactory_create(costFunction).value,
                              seeds[k])]
    /\ pc = "idle"
    /\ outcome = "none"
    /\ calls = 0
    /\ evaluation = <<>>
    /\ nEpoch = 0 /\ batchSize = 0 /\ eta = Zero /\ lambda = Zero
    /\ nBatches = 0
    /\ learningRateRatio = Zero /\ regularizationRatio = Zero
    /\ iEpoch = 0 /\ iBatch = 0 /\ idx = 0
    /\ file = <<>> /\ loaded = <<>>
    /\ lookup = <<>>
    /\ lenAtCall = 0 /\ passes = 0 /\ updates = 0 /\ recorded = <<>>

Init == InitWith({1})

\* A caller asks a factory, before it builds its network, for the enum value
\* of a name; lookup holds the answer until the caller goes on to add layers.
Str2Enum(factory, name) ==
    /\ pc = "idle" /\ calls = 0 /\ net.layers = <<>>
    /\ lookup' = [factory |-> factory, call |-> "str2enum", argument |-> name,
                  result |-> Factory_str2enum(factory, name)]
    /\ UNCHANGED <<nets, isTrueRandom, pc, outcome, calls, evaluation, trainArgs,
                   trainLocals, file, loaded, ghosts>>

\* A caller asks a factory for the object of an enum value.
Create(factory, name) ==
    /\ pc = "idle" /\ calls = 0 /\ net.layers = <<>>
    /\ lookup' = [factory |-> factory, call |-> "create", argument |-> name,
                  result |-> Factory_create(factory, name)]
    /\ UNCHANGED <<nets, isTrueRandom, pc, outcome, calls, evaluation, trainArgs,
                   trainLocals, file, loaded, ghosts>>

\* A caller has a factory create the object of an enumerator and asks the
\* factory for the enum value of the object's name.
NameRoundTrip(factory, name) ==
    /\ pc = "idle" /\ calls = 0 /\ net.layers = <<>>
    /\ lookup' = [factory |-> factory, call |-> "getName", argument |-> name,
                  result |-> Factory_str2enum(
                                factory, getName(Factory_create(factory, name).value))]
    /\ UNCHANGED <<nets, isTrueRandom, pc, outcome, calls, evaluation, trainArgs,
                   trainLocals, file, loaded, ghosts>>

\* network->addLayer(NetworkBuilder::createLayer(size, activation))
AddLayer(size, activation) ==
    /\ pc = "idle"
    /\ calls = 0
    /\ Len(net.layers) + 1 \in LayerCounts
    /\ nets' = [k \in Nets |->
                  addLayer(nets[k], createLayer(size, activation), TRUE)]
    /\ lookup' = <<>>
    /\ UNCHANGED <<isTrueRandom, pc, outcome, calls, evaluation, trainArgs,
                   trainLocals, file, loaded, ghosts>>

\* Only the input layer's size checked.
Validate_inputOnly(n) ==
    IF Len(n.training[1].first) # n.inputSize THEN "range_error" ELSE "ok"

\* The two checks at the head of train.
Validate(n) ==
    IF Len(n.training[1].first) # n.inputSize THEN "range_error"
    ELSE IF Len(n.training[1].second) # n.layers[Len(n.layers)].size
         THEN "range_error"
    ELSE "ok"

\* The learning rate passed on without the division by the batch size.
LearningRateRatio_undivided(e, bSize) == Neg(e)

LearningRateRatio(e, bSize) == Div(Neg(e), FromInt(bSize))

RegularizationRatio(e, l, nTraining) ==
    Div(Mul(Neg(e), l), FromInt(nTraining))

\* train(training, evaluation, nEpoch, batchSize, eta, lambda), up to the
\* epoch loop.  data is the caller's training set.
\* verdict is what the two checks came to.
TrainFrom(verdict, data, eval, epochs, bSize, e, l) ==
    /\ nets' = [k \in Nets |-> [nets[k] EXCEPT !.training = data[k]]]
    /\ calls' = calls + 1
    /\ IF verdict # "ok"
       THEN /\ pc' = IF verdict = "aborted" THEN "aborted" ELSE "idle"
            /\ outcome' = verdict
            /\ UNCHANGED <<evaluation, trainArgs, trainLocals, ghosts>>
       ELSE /\ pc' = "epoch"
            /\ outcome' = "running"
            /\ nEpoch' = epochs
            /\ batchSize' = bSize
            /\ eta' = e
            /\ lambda' = l
            /\ evaluation' = eval
            /\ nBatches' = NumberOfBatches(Len(data[1]), bSize)
            /\ learningRateRatio' = LearningRateRatio(e, bSize)
            /\ regularizationRatio' = RegularizationRatio(e, l, Len(data[1]))
            /\ iEpoch' = 0
            /\ iBatch' = 0
            /\ idx' = 0
            /\ lenAtCall' = Len(net.trainingCost)
            /\ passes' = 0
            /\ updates' = 0
            /\ recorded' = <<>>
    /\ UNCHANGED <<isTrueRandom, file, loaded, lookup>>

TrainEnter(data, eval, epochs, bSize, e, l) ==
    TrainFrom(Validate([net EXCEPT !.training = data[1]]), data, eval, epochs, bSize, e, l)

\* The caller's first call: a fresh training set and arguments.
TrainCall ==
    /\ pc = "idle"
    /\ calls = 0
    /\ Len(net.layers) >= 1
    /\ \E epochs \in 1 .. MaxEpoch, bSize \in 1 .. MaxBatch,
          e \in Etas, l \in Lambdas :
         \E f \in FeatureSizes, c \in LayerSizes, n \in 1 .. MaxTrain :
            TrainEnter([k \in Nets |-> Dataset(f, c, n)],
                       Dataset(f, c, EvalSize), epochs, bSize, e, l)

\* The caller repeats a call that got past the size checks, on the training
\* set as that call left it.
TrainAgain ==
    /\ pc = "idle"
    /\ calls >= 1
    /\ outcome \in {"returned", "logic_error"}
    /\ calls + 1 \in TrainCalls
    /\ TrainEnter([k \in Nets |-> nets[k].training], evaluation,
                  nEpoch, batchSize, eta, lambda)

\* An optimize that shuffles only when there is a batch to take.
OptimizeEnter_skipping(n, bSize) ==
    LET r == IF Len(n.training) >= bSize
             THEN Shuffle(n.training, n.optEngine)
             ELSE [seq |-> n.training, engine |-> n.optEngine]
    IN  [n EXCEPT !.training = r.seq, !.optEngine = r.engine,
                  !.batch = NewBatch(bSize),
                  !.shuffled = r.seq, !.batchLog = <<>>]

\* optimizer->optimize(...), up to the batch loop: the shuffle, and the
\* batch of batchSize value-initialized pairs.
OptimizeEnter(n, bSize) ==
    LET r == Shuffle(n.training, n.optEngine)
    IN  [n EXCEPT !.training = r.seq, !.optEngine = r.engine,
                  !.batch = NewBatch(bSize),
                  !.shuffled = r.seq, !.batchLog = <<>>]

EpochBegin ==
    /\ pc = "epoch"
    /\ iEpoch < nEpoch
    /\ nets' = [k \in Nets |-> OptimizeEnter(nets[k], batchSize)]
    /\ iBatch' = 0
    /\ passes' = passes + 1
    /\ pc' = "batch"
    /\ UNCHANGED <<isTrueRandom, outcome, calls, evaluation, trainArgs,
                   nBatches, learningRateRatio, regularizationRatio, iEpoch,
                   idx, file, loaded, lookup, lenAtCall, updates, recorded>>

\* The batch loop's first swap and the entry of updateParameters.
BatchEnter(n, iB, bSize) ==
    LET r == SwapRanges(n.training, InitialBatchIndex(iB, bSize), n.batch)
    IN  [n EXCEPT !.training = r.seq, !.batch = r.other,
                  !.nabla_b = ZeroNabla_b(n.layers),
                  !.nabla_w = ZeroNabla_w(n.layers, n.inputSize),
                  !.batchLog = Append(@, r.other)]

BatchBegin ==
    /\ pc = "batch"
    /\ iBatch < nBatches
    /\ nets' = [k \in Nets |-> BatchEnter(nets[k], iBatch, batchSize)]
    /\ idx' = 0
    /\ pc' = "backprop"
    /\ UNCHANGED <<isTrueRandom, outcome, calls, evaluation, trainArgs,
                   nBatches, learningRateRatio, regularizationRatio, iEpoch,
                   iBatch, file, loaded, lookup, ghosts>>

\* A turn that raises an error on a gradient that is not finite.
Accumulate_checked(n, i) ==
    LET r == backPropagate(n.layers, n.costFunction,
                           ZeroNabla_b(n.layers),
                           ZeroNabla_w(n.layers, n.inputSize),
                           n.batch[i].first, n.batch[i].second)
        finite == /\ ~r.thrown
                  /\ \A j \in 1 .. Len(n.layers) :
                       \A k \in 1 .. Len(r.delta_nabla_b[j]) :
                          IsFinite(r.delta_nabla_b[j][k])
    IN  [thrown |-> ~finite,
         n |-> IF ~finite THEN n
               ELSE [n EXCEPT
                       !.nabla_b = Vec([j \in 1 .. Len(n.layers) |->
                                      VecAdd(n.nabla_b[j], r.delta_nabla_b[j])]),
                       !.nabla_w = Vec([j \in 1 .. Len(n.layers) |->
                                      MatAdd(n.nabla_w[j], r.delta_nabla_w[j])])]]

\* A turn that applies the sample's gradient to the layers at once.
Accumulate_stepwise(n, i) ==
    LET r == backPropagate(n.layers, n.costFunction,
                           ZeroNabla_b(n.layers),
                           ZeroNabla_w(n.layers, n.inputSize),
                           n.batch[i].first, n.batch[i].second)
    IN  [thrown |-> r.thrown,
         n |-> IF r.thrown THEN n
               ELSE [n EXCEPT
                       !.layers = Vec([j \in 1 .. Len(n.layers) |->
                                     Layer_updateBiasWeight(
                                        n.layers[j], r.delta_nabla_b[j],
                                        r.delta_nabla_w[j], Neg(One), Zero)])]]

\* One turn of updateParameters' loop over the batch.
Accumulate(n, i) ==
    LET r == backPropagate(n.layers, n.costFunction,
                           ZeroNabla_b(n.layers),
                           ZeroNabla_w(n.layers, n.inputSize),
                           n.batch[i].first, n.batch[i].second)
    IN  [thrown |-> r.thrown,
         n |-> IF r.thrown THEN n
               ELSE [n EXCEPT
                       !.nabla_b = Vec([j \in 1 .. Len(n.layers) |->
                                      VecAdd(n.nabla_b[j], r.delta_nabla_b[j])]),
                       !.nabla_w = Vec([j \in 1 .. Len(n.layers) |->
                                      MatAdd(n.nabla_w[j], r.delta_nabla_w[j])])]]

\* An unwinding that put the batch's samples back (one the code does not have).
Unwind_restored(n) ==
    [n EXCEPT !.training = n.shuffled, !.batch = <<>>, !.nabla_b = <<>>, !.nabla_w = <<>>]

\* What is left of the call's objects when an exception unwinds train.
Unwind(n) == [n EXCEPT !.batch = <<>>, !.nabla_b = <<>>, !.nabla_w = <<>>]

BackPropagateSample ==
    /\ pc = "backprop"
    /\ idx < Len(net.batch)
    /\ LET r == [k \in Nets |-> Accumulate(nets[k], idx + 1)]
       IN  IF r[1].thrown
           THEN /\ nets' = [k \in Nets |-> Unwind(nets[k])]
                /\ pc' = "idle"
                /\ outcome' = "logic_error"
                /\ idx' = 0
           ELSE /\ nets' = [k \in Nets |-> r[k].n]
                /\ pc' = "backprop"
                /\ outcome' = outcome
                /\ idx' = idx + 1
    /\ UNCHANGED <<isTrueRandom, calls, evaluation, trainArgs, nBatches,
                   learningRateRatio, regularizationRatio, iEpoch, iBatch,
                   file, loaded, lookup, ghosts>>

\* The loop of updateParameters over the layers.
UpdateAll(layers, nabla_b, nabla_w, lrRatio, regRatio) ==
    Vec([i \in 1 .. Len(layers) |->
        Layer_updateBiasWeight(layers[i], nabla_b[i], nabla_w[i], lrRatio, regRatio)])

\* The end of updateParameters and optimize's re-swap.
BatchLeave(n, iB, bSize, lrRatio, regRatio) ==
    LET r == SwapRanges(n.training, InitialBatchIndex(iB, bSize), n.batch)
    IN  [n EXCEPT !.layers = UpdateAll(n.layers, n.nabla_b, n.nabla_w, lrRatio, regRatio),
                  !.training = r.seq, !.batch = r.other,
                  !.nabla_b = <<>>, !.nabla_w = <<>>]

BatchEnd ==
    /\ pc = "backprop"
    /\ idx = Len(net.batch)
    /\ nets' = [k \in Nets |->
                  BatchLeave(nets[k], iBatch, batchSize,
                             learningRateRatio, regularizationRatio)]
    /\ iBatch' = iBatch + 1
    /\ idx' = 0
    /\ updates' = updates + 1
    /\ pc' = "batch"
    /\ UNCHANGED <<isTrueRandom, outcome, calls, evaluation, trainArgs,
                   nBatches, learningRateRatio, regularizationRatio, iEpoch,
                   file, loaded, lookup, lenAtCall, passes, recorded>>

\* An entry that takes the place of the last one.
push_back_overwrite(seq, x) ==
    IF seq = <<>> THEN <<x>> ELSE [seq EXCEPT ![Len(seq)] = x]

\* std::vector<double>::push_back
push_back(seq, x) == Append(seq, x)

\* The end of optimize and the rest of the epoch: the evaluation on both
\* sets and the four push_backs.
Record(n, eval, ubCast) ==
    LET t == calcAccuracyAndCost(n.layers, n.costFunction, n.training,
                                 EvaluationLambda(lambda), ubCast)
        e == calcAccuracyAndCost(n.layers, n.costFunction, eval,
                                 EvaluationLambda(lambda), ubCast)
        nTraining == FromInt(Len(n.training))
        nEvaluation == FromInt(Len(eval))
    IN  [oob |-> t.oob \/ e.oob,
         n |-> [n EXCEPT
                  !.batch = <<>>,
                  !.trainingCost = push_back(@, Div(t.cost, nTraining)),
                  !.trainingAccuracy = push_back(@, Div(FromInt(t.correct), nTraining)),
                  !.evaluationCost = push_back(@, Div(e.cost, nEvaluation)),
                  !.evaluationAccuracy = push_back(@, Div(FromInt(e.correct), nEvaluation))]]

EpochEnd ==
    /\ pc = "batch"
    /\ iBatch = nBatches
    /\ \E ubCast \in UBCastValues :
         LET r == [k \in Nets |-> Record(nets[k], evaluation, ubCast)]
         IN  \/ /\ nets' = [k \in Nets |-> r[k].n]
                /\ iEpoch' = iEpoch + 1
                /\ recorded' = Append(recorded, [passes |-> passes, updates |-> updates])
                /\ pc' = "epoch"
                /\ UNCHANGED <<outcome, iBatch>>
             \/ \* a bounds-checked build aborts at the out-of-bounds write
                /\ r[1].oob
                /\ nets' = [k \in Nets |-> Unwind(nets[k])]
                /\ pc' = "aborted"
                /\ outcome' = "aborted"
                /\ iBatch' = 0
                /\ UNCHANGED <<iEpoch, recorded>>
    /\ UNCHANGED <<isTrueRandom, calls, evaluation, trainArgs, nBatches,
                   learningRateRatio, regularizationRatio, idx,
                   file, loaded, lookup, lenAtCall, passes, updates>>

\* NetworkBuilder::save(network, filename), between two calls of train.
Save ==
    /\ pc = "idle"
    /\ file' = save(net)
    /\ pc' = "saved"
    /\ UNCHANGED <<nets, isTrueRandom, outcome, calls, evaluation, trainArgs,
                   trainLocals, loaded, lookup, ghosts>>

\* builder.load(filename) of the file just saved.
Load ==
    /\ pc = "saved"
    /\ \E seed \in SeedChoices(isTrueRandom) :
         LET r == load(file, seed)
         IN  /\ loaded' = r.network
             /\ outcome' = IF r.thrown = NoError THEN outcome ELSE "logic_error"
    /\ pc' = "loaded"
    /\ UNCHANGED <<nets, isTrueRandom, calls, evaluation, trainArgs,
                   trainLocals, file, lookup, ghosts>>

TrainReturn ==
    /\ pc = "epoch"
    /\ iEpoch = nEpoch
    /\ pc' = "idle"
    /\ outcome' = "returned"
    /\ UNCHANGED <<nets, isTrueRandom, calls, evaluation, trainArgs,
                   trainLocals, file, loaded, lookup, ghosts>>

Next ==
    \/ \E factory \in Factories, name \in NameStrings : Str2Enum(factory, name)
    \/ \E factory \in Factories :
         \E name \in Enumerators(factory) \cup {Unlisted} : Create(factory, name)
    \/ \E factory \in Factories :
         \E name \in Enumerators(factory) : NameRoundTrip(factory, name)
    \/ \E size \in LayerSizes, activation \in ActivationFunctions :
         AddLayer(size, activation)
    \/ TrainCall
    \/ TrainAgain
    \/ EpochBegin
    \/ BatchBegin
    \/ BackPropagateSample
    \/ BatchEnd
    \/ EpochEnd
    \/ TrainReturn
    \/ Save
    \/ Load

Spec == Init /\ [][Next]_vars

\* A step of a train call that is under way.  train runs in the caller's
\* thread and nothing waits inside it: once called, it takes its next step.
TrainStep ==
    \/ EpochBegin
    \/ BatchBegin
    \/ BackPropagateSample
    \/ BatchEnd
    \/ EpochEnd
    \/ TrainReturn

\* A caller that assembles a fixed-seed network and calls train on it once.
InitLive == Init /\ ~isTrueRandom

NextLive ==
    \/ \E size \in LayerSizes, activation \in ActivationFunctions :
         AddLayer(size, activation)
    \/ TrainCall
    \/ TrainStep

\* train is one sequential loop: once called, the thread runs its next step.
\* Each step of the loop is taken when it stays possible (weak fairness).  For
\* the sample step and the evaluation step the condition ENABLED <<A>>_vars
\* is written out as the guard of A: under the guard A always has a successor
\* and always changes idx, pc or iEpoch.
SpecLive ==
    /\ InitLive
    /\ [][NextLive]_vars
    /\ WF_vars(EpochBegin)
    /\ WF_vars(BatchBegin)
    /\ WF_vars(BatchEnd)
    /\ WF_vars(TrainReturn)
    /\ \/ []<>~(pc = "backprop" /\ idx < Len(net.batch))
       \/ []<><<BackPropagateSample>>_vars
    /\ \/ []<>~(pc = "batch" /\ iBatch = nBatches)
       \/ []<><<EpochEnd>>_vars

\* Two networks built alike with isTrueRandom = false that receive the same
\* calls.
InitTwin == InitWith({1, 2}) /\ ~isTrueRandom

SpecTwin == InitTwin /\ [][Next]_vars

(***************************************************************************)
(* A caller that assembles a network layer by layer, with initialization   *)
(* or from layers that already hold parameters, and calls its functions.   *)
(* lookup holds the last call: the object, the function, the arguments and *)
(* what came back.                                                         *)
(***************************************************************************)
\* Layers that hold parameters before they are added, as load builds them and
\* as any caller of addLayer(layer, false) may.
RestoredLayers ==
    { [size |-> 1, activationFunction |-> "Logistic",
       bias |-> <<Half>>, weight |-> << <<One, Neg(One)>> >>],
      [size |-> 2, activationFunction |-> "Logistic",
       bias |-> <<Zero, One>>, weight |-> << <<One>>, <<Neg(Half)>> >>],
      [size |-> 2, activationFunction |-> "Softmax",
       bias |-> <<Zero, Zero>>, weight |-> << <<One, Zero>>, <<Zero, FromInt(2)>> >>] }

\* The layers a caller hands to addLayer.
LayersToAdd ==
    {createLayer(size, activation) : size \in LayerSizes, activation \in ActivationFunctions}
        \cup RestoredLayers

\* Every product of the forward and the backward pass is of matching sizes.
Consistent(n) ==
    /\ Len(n.layers) >= 1
    /\ \A i \in 1 .. Len(n.layers) :
         /\ Len(n.layers[i].bias) = n.layers[i].size
         /\ Len(n.layers[i].weight) = n.layers[i].size
         /\ \A r \in 1 .. Len(n.layers[i].weight) :
              Len(n.layers[i].weight[r]) =
                 IF i = 1 THEN n.inputSize ELSE n.layers[i - 1].size

Called(object, function, argument, result) ==
    [factory |-> object, call |-> function, argument |-> argument, result |-> result]

InitCalls == Init /\ ~isTrueRandom

\* network->addLayer(layer, isNotInitialized)
AddLayerCall(layer, isNotInitialized) ==
    /\ pc = "idle"
    /\ calls = 0
    /\ Len(net.layers) + 1 \in LayerCounts
    /\ nets' = [k \in Nets |-> addLayer(nets[k], layer, isNotInitialized)]
    /\ lookup' = Called("Network", "addLayer",
                        [layer |-> layer, isNotInitialized |-> isNotInitialized,
                         before |-> net.layers], <<>>)
    /\ UNCHANGED <<isTrueRandom, pc, outcome, calls, evaluation, trainArgs,
                   trainLocals, file, loaded, ghosts>>

\* The regularization parameters a caller passes to calcAccuracyAndCost.
EvaluationLambdas == {Zero, One, FromInt(3)}

\* network->calcAccuracyAndCost(data, lambda) on a set whose labels are
\* scalars or of the last layer's size.  An out-of-bounds write of
\* prediction2output either goes unnoticed or ends the process.
CalcAccuracyAndCostCall ==
    /\ pc = "idle"
    /\ calls = 0
    /\ Consistent(net)
    /\ \E c \in LayerSizes, n \in 1 .. MaxTrain, l \in EvaluationLambdas,
          ubCast \in UBCastValues :
         /\ c = 1 \/ c = net.layers[Len(net.layers)].size
         /\ LET data == Dataset(net.inputSize, c, n)
                r == calcAccuracyAndCost(net.layers, net.costFunction, data, l, ubCast)
            IN  \E returned \in (IF r.oob THEN BOOLEAN ELSE {TRUE}) :
                   lookup' = Called("Network", "calcAccuracyAndCost",
                                    [data |-> data, lambda |-> l, ubCast |-> ubCast],
                                    [returned |-> returned,
                                     value |-> IF returned THEN r ELSE <<>>])
    /\ pc' = "called"
    /\ UNCHANGED <<nets, isTrueRandom, outcome, calls, evaluation, trainArgs,
                   trainLocals, file, loaded, ghosts>>

\* The vectors a caller has converted: labels and outputs.
ConversionVectors ==
    { <<Zero>>, <<One>>, <<FromInt(2)>>, <<Half>>,
      <<Zero, One>>, <<One, Zero>>, <<One, One>>, <<Half, FromInt(2)>> }

\* prediction2output(output, v), output2prediction(v) and
\* output2prediction(output), as calcAccuracyAndCost calls them.
ConversionCall ==
    /\ pc = "idle"
    /\ calls = 0
    /\ Len(net.layers) >= 1
    /\ \E v \in ConversionVectors, ubCast \in UBCastValues :
         LET r == prediction2output(net.layers[Len(net.layers)].size, v, ubCast)
         IN  \E returned \in (IF r.oob THEN BOOLEAN ELSE {TRUE}) :
                lookup' = Called("Network", "prediction2output",
                                 [prediction |-> v, ubCast |-> ubCast],
                                 [returned |-> returned,
                                  value |-> IF returned
                                            THEN [oob |-> r.oob,
                                                  output |-> r.output,
                                                  prediction |-> output2prediction(v, ubCast),
                                                  back |-> output2prediction(r.output, ubCast)]
                                            ELSE <<>>])
    /\ pc' = "called"
    /\ UNCHANGED <<nets, isTrueRandom, outcome, calls, evaluation, trainArgs,
                   trainLocals, file, loaded, ghosts>>

\* What the two checks of train come to on any network: on one without
\* layers, layers.back() is undefined behaviour, and the second check then
\* passes, fails or ends the process.
ValidateOutcomes(n) ==
    IF Len(n.training[1].first) # n.inputSize THEN {"range_error"}
    ELSE IF n.layers = <<>> THEN {"ok", "range_error", "aborted"}
    ELSE {Validate(n)}

\* network->train(...) on the network as assembled, up to the epoch loop.
TrainAssembledCall ==
    /\ pc = "idle"
    /\ calls = 0
    /\ \E f \in FeatureSizes, c \in LayerSizes, n \in 1 .. MaxTrain,
          e \in Etas, l \in Lambdas :
         \E verdict \in ValidateOutcomes([net EXCEPT !.training = Dataset(f, c, n)]) :
            TrainFrom(verdict, [k \in Nets |-> Dataset(f, c, n)],
                      Dataset(f, c, EvalSize), 1, 1, e, l)

\* The inputs of length p that a caller feeds to a layer.
LayerInputs(p) == [1 .. p -> {Zero, One, Neg(Half)}]

\* Both overloads of Layer::feedForward on layer i of the network.
FeedForwardCall ==
    /\ pc = "idle"
    /\ calls = 0
    /\ Consistent(net)
    /\ \E i \in 1 .. Len(net.layers) :
         \E f \in LayerInputs(IF i = 1 THEN net.inputSize ELSE net.layers[i - 1].size) :
            LET x == Vec(f)
                r == Layer_feedForward(net.layers[i], x)
            IN  lookup' = Called("Layer", "feedForward", [layer |-> i, x |-> x],
                                 [returned |-> Layer_feedForwardValue(net.layers[i], x),
                                  a |-> r.a, z |-> r.z])
    /\ pc' = "called"
    /\ UNCHANGED <<nets, isTrueRandom, outcome, calls, evaluation, trainArgs,
                   trainLocals, file, loaded, ghosts>>

\* Components of a predicted or a target vector: 0, 1/4, 1/2, 3/4 and 1.
UnitInterval == {Zero, Div(One, FromInt(4)), Half, Div(FromInt(3), FromInt(4)), One}
UnitVectors == UNION {[1 .. p -> UnitInterval] : p \in 1 .. 2}

\* costFunction->calculate(x, t) on the cross-entropy cost function of a
\* network, before a layer is added to it.
CrossEntropyCall ==
    /\ pc = "idle"
    /\ calls = 0
    /\ net.layers = <<>>
    /\ net.costFunction = "CrossEntropy"
    /\ \E f \in UnitVectors :
         \E g \in [DOMAIN f -> UnitInterval] :
            lookup' = Called("CrossEntropy", "calculate",
                             [x |-> Vec(f), t |-> Vec(g)],
                             CrossEntropy_calculate(Vec(f), Vec(g)))
    /\ pc' = "called"
    /\ UNCHANGED <<nets, isTrueRandom, outcome, calls, evaluation, trainArgs,
                   trainLocals, file, loaded, ghosts>>

\* Labels of a sample: zeros and ones, one per neuron of the last layer.
LayerLabels(q) == [1 .. q -> {Zero, One}]

\* backPropagate(delta_nabla_b, delta_nabla_w, x, y), as updateParameters
\* calls it for one sample.
BackPropagateCall ==
    /\ pc = "idle"
    /\ calls = 0
    /\ Len(net.layers) >= 1
    /\ Consistent(net)
    /\ \E f \in LayerInputs(net.inputSize) :
         \E g \in LayerLabels(net.layers[Len(net.layers)].size) :
            lookup' = Called("Network", "backPropagate",
                             [x |-> Vec(f), y |-> Vec(g)],
                             backPropagate(net.layers, net.costFunction,
                                           ZeroNabla_b(net.layers),
                                           ZeroNabla_w(net.layers, net.inputSize),
                                           Vec(f), Vec(g)))
    /\ pc' = "called"
    /\ UNCHANGED <<nets, isTrueRandom, outcome, calls, evaluation, trainArgs,
                   trainLocals, file, loaded, ghosts>>

\* Error signals and pre-activations handed to a layer of q neurons.
LayerSignals(q) == [1 .. q -> {One, Neg(Half)}]

\* layers[i].feedBackward(delta_nabla_b, delta_nabla_w, deltaPrevious, a, z)
FeedBackwardCall ==
    /\ pc = "idle"
    /\ calls = 0
    /\ Consistent(net)
    /\ \E i \in 1 .. Len(net.layers) :
         \E d \in LayerSignals(net.layers[i].size),
            z \in LayerSignals(net.layers[i].size),
            a \in LayerInputs(IF i = 1 THEN net.inputSize ELSE net.layers[i - 1].size) :
            lookup' = Called("Layer", "feedBackward",
                             [layer |-> i, deltaPrevious |-> Vec(d), a |-> Vec(a),
                              z |-> Vec(z)],
                             Layer_feedBackward(net.layers[i], Vec(d), Vec(a), Vec(z)))
    /\ pc' = "called"
    /\ UNCHANGED <<nets, isTrueRandom, outcome, calls, evaluation, trainArgs,
                   trainLocals, file, loaded, ghosts>>

\* predict(input): the prediction of the forward output.
predict(layers, input, ubCast) ==
    output2prediction(Network_feedForward(layers, input), ubCast)

\* network->predict(input)
PredictCall ==
    /\ pc = "idle"
    /\ calls = 0
    /\ Consistent(net)
    /\ \E f \in LayerInputs(net.inputSize), ubCast \in UBCastValues :
         lookup' = Called("Network", "predict", Vec(f),
                          predict(net.layers, Vec(f), ubCast))
    /\ pc' = "called"
    /\ UNCHANGED <<nets, isTrueRandom, outcome, calls, evaluation, trainArgs,
                   trainLocals, file, loaded, ghosts>>

\* printLayers(): the lines written to std::cout, each the text before the
\* number and the number.
printLayers(n) ==
    IF Len(n.layers) = 0
    THEN << <<"The neural network is empty.">> >>
    ELSE << <<"The neural network has ", Len(n.layers)>>,
            <<"    Input : ", n.inputSize>> >>
         \o [iLayer \in 1 .. Len(n.layers) - 1 |->
               <<iLayer - 1, n.layers[iLayer].size>>]
         \o << <<"   Output : ", n.layers[Len(n.layers)].size>> >>

\* network->printLayers()
PrintLayersCall ==
    /\ pc = "idle"
    /\ calls = 0
    /\ lookup' = Called("Network", "printLayers", <<>>, printLayers(net))
    /\ pc' = "called"
    /\ UNCHANGED <<nets, isTrueRandom, outcome, calls, evaluation, trainArgs,
                   trainLocals, file, loaded, ghosts>>

NextCalls ==
    \/ \E layer \in LayersToAdd, isNotInitialized \in BOOLEAN :
         AddLayerCall(layer, isNotInitialized)
    \/ CalcAccuracyAndCostCall
    \/ ConversionCall
    \/ TrainAssembledCall
    \/ FeedForwardCall
    \/ CrossEntropyCall
    \/ BackPropagateCall
    \/ FeedBackwardCall
    \/ PredictCall
    \/ PrintLayersCall

SpecCalls == InitCalls /\ [][NextCalls]_vars

\* A caller that builds, trains and saves a network as in Spec, and that also
\* calls the functions that only read it.
NextUse ==
    \/ Next
    \/ CalcAccuracyAndCostCall
    \/ BackPropagateCall
    \/ PredictCall
    \/ PrintLayersCall

SpecUse == Init /\ [][NextUse]_vars

BatchIds(n) == {n.batchLog[i][j].id : i \in 1 .. Len(n.batchLog), j \in 1 .. batchSize}
TailIds(n) == {n.shuffled[p].id :
                 p \in (Len(n.shuffled) \div batchSize) * batchSize + 1 .. Len(n.shuffled)}
DistinctIds(seq) == \A p, q \in 1 .. Len(seq) : seq[p].id = seq[q].id => p = q

(***************************************************************************)
(* C1: in every epoch the update callback is invoked floor(N / B) times;   *)
(* the batch of invocation i (from 0) is the samples at the shuffled       *)
(* positions i*B .. (i+1)*B - 1, in that order; no sample of the shuffled  *)
(* set is in two batches, and the samples at the positions from            *)
(* floor(N / B) * B on are in none.                                        *)
(***************************************************************************)
C1_Batching ==
    pc \in {"batch", "backprop"} =>
      /\ Len(net.batchLog) <= Len(net.shuffled) \div batchSize
      /\ Len(net.batchLog) = IF pc = "batch" THEN iBatch ELSE iBatch + 1
      /\ (pc = "batch" /\ iBatch = nBatches) =>
            Len(net.batchLog) = Len(net.shuffled) \div batchSize
      /\ \A i \in 1 .. Len(net.batchLog) :
            net.batchLog[i] = SubSeq(net.shuffled, (i - 1) * batchSize + 1, i * batchSize)
      /\ DistinctIds(net.shuffled) =>
            /\ Cardinality(BatchIds(net)) = Len(net.batchLog) * batchSize
            /\ BatchIds(net) \cap TailIds(net) = {}

\* An epoch's batch loop is over, it ran at least once, and a sample is left over.
C1_Witness ==
    /\ pc = "batch" /\ iBatch = nBatches /\ nBatches >= 1
    /\ Len(net.batchLog) = nBatches
    /\ Len(net.shuffled) > nBatches * batchSize
    /\ DistinctIds(net.shuffled)

Metrics(n) == <<n.trainingCost, n.trainingAccuracy, n.evaluationCost, n.evaluationAccuracy>>
LastLayerSize(n) == n.layers[Len(n.layers)].size
Mismatch(n, data) ==
    \/ Len(data[1].first) # n.inputSize
    \/ Len(data[1].second) # LastLayerSize(n)

(***************************************************************************)
(* C2: a train call whose first training sample has a feature vector of a  *)
(* length other than inputSize, or a label of a length other than the last *)
(* layer's size, ends with a range error before the first epoch: no        *)
(* optimizer pass, the training set in the caller's order, every layer and *)
(* every metric sequence as before the call.                               *)
(***************************************************************************)
C2_RangeError ==
    [][(calls' = calls + 1 /\ Mismatch(net, net'.training)) =>
          /\ outcome' = "range_error"
          /\ pc' = "idle"
          /\ passes' = passes
          /\ net'.optEngine = net.optEngine
          /\ net'.shuffled = net.shuffled
          /\ IF calls = 0
             THEN \A p \in 1 .. Len(net'.training) : net'.training[p].id = p
             ELSE net'.training = net.training
          /\ net'.layers = net.layers
          /\ Metrics(net') = Metrics(net)]_vars

\* A call refused for its label length alone.
C2_Witness ==
    /\ outcome = "range_error" /\ pc = "idle" /\ calls = 1
    /\ Len(net.training[1].first) = net.inputSize
    /\ Len(net.training[1].second) # LastLayerSize(net)
    /\ Len(net.training) >= 2

IsPrefix(a, b) == Len(a) <= Len(b) /\ SubSeq(b, 1, Len(a)) = a
MetricLengths(n) == {Len(Metrics(n)[m]) : m \in 1 .. 4}

(***************************************************************************)
(* C3: at every epoch boundary the four metric sequences have one length;  *)
(* a completed epoch appends one entry to each, nothing else changes them, *)
(* and no entry is ever modified or removed; a train call that returns     *)
(* normally has lengthened each by nEpoch.                                 *)
(***************************************************************************)
C3_Metrics ==
    /\ [](Cardinality(MetricLengths(net)) = 1)
    /\ [](outcome = "returned" => MetricLengths(net) = {lenAtCall + nEpoch})
    /\ [][/\ \A m \in 1 .. 4 : IsPrefix(Metrics(net)[m], Metrics(net')[m])
          /\ IF iEpoch' = iEpoch + 1
             THEN \A m \in 1 .. 4 : Len(Metrics(net')[m]) = Len(Metrics(net)[m]) + 1
             ELSE Metrics(net') = Metrics(net)]_vars

\* The second call on a network has returned, its metrics after the first's.
C3_Witness ==
    /\ outcome = "returned" /\ calls = 2 /\ nEpoch = 2
    /\ lenAtCall = 2
    /\ Len(net.evaluationAccuracy) = 4

(***************************************************************************)
(* C4: an epoch is one optimizer pass; all its batch updates are done      *)
(* before its metrics are computed, and its metrics are appended before    *)
(* the next pass begins: the k-th entry (from 0) of a call is computed     *)
(* from the parameters after exactly k + 1 passes.                         *)
(***************************************************************************)
C4_EpochOrder ==
    /\ [](pc \in {"epoch", "batch", "backprop"} =>
            /\ passes = IF pc = "epoch" THEN iEpoch ELSE iEpoch + 1
            /\ Len(recorded) = iEpoch
            /\ Len(net.trainingCost) = lenAtCall + iEpoch
            /\ \A k \in 1 .. Len(recorded) :
                  /\ recorded[k].passes = k
                  /\ recorded[k].updates = k * (Len(net.training) \div batchSize))
    /\ [][iEpoch' = iEpoch + 1 =>
            /\ net'.layers = net.layers
            /\ \E ubCast \in UBCastValues :
                 LET t == calcAccuracyAndCost(net.layers, net.costFunction,
                                              net.training, Zero, ubCast)
                     e == calcAccuracyAndCost(net.layers, net.costFunction,
                                              evaluation, Zero, ubCast)
                     last == Len(net'.trainingCost)
                 IN  /\ net'.trainingCost[last] = Div(t.cost, FromInt(Len(net.training)))
                     /\ net'.trainingAccuracy[last] =
                          Div(FromInt(t.correct), FromInt(Len(net.training)))
                     /\ net'.evaluationCost[last] = Div(e.cost, FromInt(Len(evaluation)))
                     /\ net'.evaluationAccuracy[last] =
                          Div(FromInt(e.correct), FromInt(Len(evaluation)))]_vars

\* The second epoch of a call with two batches an epoch has been recorded.
C4_Witness ==
    /\ pc = "epoch" /\ iEpoch = 2 /\ nBatches = 2
    /\ Len(recorded) = 2 /\ recorded[2].passes = 2 /\ recorded[2].updates = 4
    /\ net.trainingCost[lenAtCall + 1] # net.trainingCost[lenAtCall + 2]

RECURSIVE BatchGradient(_, _, _, _)
BatchGradient(n, i, sum_b, sum_w) ==
    IF i > Len(n.batch) THEN [nabla_b |-> sum_b, nabla_w |-> sum_w]
    ELSE LET g == backPropagate(n.layers, n.costFunction, sum_b, sum_w,
                                n.batch[i].first, n.batch[i].second)
         IN  BatchGradient(n, i + 1,
               Vec([j \in 1 .. Len(n.layers) |-> VecAdd(sum_b[j], g.delta_nabla_b[j])]),
               Vec([j \in 1 .. Len(n.layers) |-> MatAdd(sum_w[j], g.delta_nabla_w[j])]))

(***************************************************************************)
(* C5: inside updateParameters no bias and no weight changes until         *)
(* backPropagate has run for every sample of the batch; then every layer   *)
(* is updated once, from the sums over the batch of the per-sample         *)
(* gradients, the sums starting at zero.                                   *)
(***************************************************************************)
C5_BatchUpdate ==
    [][/\ (pc' = "backprop") => net'.layers = net.layers
       /\ (pc = "batch" /\ pc' = "backprop") =>
             /\ \A i \in 1 .. Len(net.layers) :
                  /\ Len(net'.nabla_b[i]) = net.layers[i].size
                  /\ \A r \in 1 .. net.layers[i].size :
                       /\ net'.nabla_b[i][r] = Zero
                       /\ \A c \in 1 .. Len(net.layers[i].weight[r]) :
                            net'.nabla_w[i][r][c] = Zero
             /\ Len(net'.batch) = batchSize
       /\ (pc = "backprop" /\ pc' = "batch") =>
             /\ idx = batchSize
             /\ LET zero_b == Vec([i \in 1 .. Len(net.layers) |->
                                  Vec([r \in 1 .. net.layers[i].size |-> Zero])])
                    zero_w == Vec([i \in 1 .. Len(net.layers) |->
                                  Vec([r \in 1 .. net.layers[i].size |->
                                     Vec([c \in 1 .. Len(net.layers[i].weight[r]) |-> Zero])])])
                    g == BatchGradient(net, 1, zero_b, zero_w)
                IN  /\ net.nabla_b = g.nabla_b
                    /\ net.nabla_w = g.nabla_w
                    /\ \A i \in 1 .. Len(net.layers) :
                         net'.layers[i] =
                            Layer_updateBiasWeight(net.layers[i], g.nabla_b[i], g.nabla_w[i],
                                                   learningRateRatio, regularizationRatio)]_vars

\* A batch of two samples has been applied to a network of two layers.
C5_Witness ==
    /\ pc = "batch" /\ updates = 1 /\ batchSize = 2 /\ iBatch = 1
    /\ Len(net.layers) = 2
    /\ net.nabla_b = <<>>

(***************************************************************************)
(* C6: updateBiasWeight leaves bias = old bias + learningRateRatio *       *)
(* nabla_b and weight = old weight + learningRateRatio * nabla_w +         *)
(* regularizationRatio * old weight; the new bias does not depend on       *)
(* regularizationRatio; the layer's size, activation and the shapes of     *)
(* bias and weight stay.                                                   *)
(***************************************************************************)
C6_UpdateRule ==
    [][(pc = "backprop" /\ pc' = "batch") =>
         \A i \in 1 .. Len(net.layers) :
            LET old == net.layers[i]
                new == net'.layers[i]
            IN  /\ new.size = old.size
                /\ new.activationFunction = old.activationFunction
                /\ Len(new.bias) = Len(old.bias)
                /\ Len(new.weight) = Len(old.weight)
                /\ \A r \in 1 .. Len(old.bias) :
                     new.bias[r] = Add(old.bias[r],
                                       Mul(learningRateRatio, net.nabla_b[i][r]))
                /\ \A r \in 1 .. Len(old.weight) :
                     /\ Len(new.weight[r]) = Len(old.weight[r])
                     /\ \A c \in 1 .. Len(old.weight[r]) :
                          new.weight[r][c] =
                             Add(old.weight[r][c],
                                 Add(Mul(learningRateRatio, net.nabla_w[i][r][c]),
                                     Mul(regularizationRatio, old.weight[r][c])))
                /\ \A reg \in {Zero, regularizationRatio, Neg(regularizationRatio)} :
                     Layer_updateBiasWeight(old, net.nabla_b[i], net.nabla_w[i],
                                            learningRateRatio, reg).bias = new.bias]_vars

\* An update with both ratios at work on a layer with a non-zero bias and a
\* weight matrix that is not square.
C6_Witness ==
    /\ pc = "batch" /\ updates >= 2
    /\ regularizationRatio # Zero /\ learningRateRatio # Zero
    /\ \E i \in 1 .. Len(net.layers) :
         /\ Len(net.layers[i].weight) # Len(net.layers[i].weight[1])
         /\ \E r \in 1 .. Len(net.layers[i].bias) : net.layers[i].bias[r] # Zero

HasSoftmax(n) == \E i \in 1 .. Len(n.layers) : n.layers[i].activationFunction = "Softmax"
SomeInputs == {<<>>, <<Zero>>, <<One, Neg(One)>>, <<PInf>>, <<NaN, Zero>>}

(***************************************************************************)
(* C7: Softmax's calculate_derivative fails on every input, and the        *)
(* failure reaches the caller of train: a call with valid shapes, at least *)
(* one epoch and at least one batch, on a network with a Softmax layer,    *)
(* ends with that error, no layer updated and no metric appended.          *)
(***************************************************************************)
C7_SoftmaxFails ==
    /\ [](\A z \in SomeInputs :
             /\ Softmax_calculate_derivative(z).thrown
             /\ Activation_calculate_derivative("Softmax", z).thrown)
    /\ []((HasSoftmax(net) /\ calls >= 1 /\ nBatches >= 1) =>
             /\ updates = 0
             /\ Metrics(net) = <<<<>>, <<>>, <<>>, <<>>>>
             /\ outcome \in {"running", "logic_error", "range_error"})
    /\ [][(HasSoftmax(net) /\ calls >= 1 /\ nBatches >= 1) =>
             /\ net'.layers = net.layers
             /\ pc = "backprop" =>
                  /\ idx = 0 /\ iBatch = 0 /\ iEpoch = 0
                  /\ pc' = "idle"
                  /\ outcome' = "logic_error"]_vars

\* The error has reached the caller from a Softmax layer below a Logistic one.
C7_Witness ==
    /\ outcome = "logic_error" /\ pc = "idle" /\ calls = 1
    /\ Len(net.layers) = 2
    /\ net.layers[1].activationFunction = "Softmax"
    /\ net.layers[2].activationFunction = "Logistic"
    /\ nEpoch >= 1 /\ nBatches >= 1
    /\ Metrics(net) = <<<<>>, <<>>, <<>>, <<>>>>

RegisteredName(factory, variant) ==
    CASE variant = "LOGISTIC" -> "logistic"
      [] variant = "SOFTMAX" -> "softmax"
      [] variant = "QUADRATIC" -> "quadratic"
      [] variant = "CROSSENTROPY" -> "crossentropy"
      [] variant = "SGD" -> "stochastic"

UnknownName(factory) ==
    CASE factory = "ActivationFunctionFactory" ->
           "ActivationFunctionFactory::str2enum : unknown activation function name "
      [] factory = "CostFunctionFactory" ->
           "CostFunctionFactory::str2enum : unknown cost function name "
      [] factory = "OptimizerFactory" ->
           "OptimizerFactory::str2enum : unknown optimizer name "

Unimplemented(factory) ==
    CASE factory = "ActivationFunctionFactory" ->
           "ActivationFunctionFactory::create : unimplemented activation function"
      [] factory = "CostFunctionFactory" ->
           "CostFunctionFactory::create : unimplemented cost function"
      [] factory = "OptimizerFactory" ->
           "OptimizerFactory::create : unimplemented optimizer"

(***************************************************************************)
(* C8: of each of the three factories, str2enum of a string that is no     *)
(* registered name raises the factory's "unknown ... name" error and       *)
(* returns no variant, str2enum of a registered name returns the variant   *)
(* that carries the name, and create of an enum value without a branch     *)
(* raises the factory's "unimplemented ..." error.                         *)
(***************************************************************************)
C8_Factories ==
    lookup # <<>> =>
      LET factory == lookup.factory
          argument == lookup.argument
          result == lookup.result
          registered == {v \in Enumerators(factory) :
                           RegisteredName(factory, v) = argument}
      IN  /\ (lookup.call = "str2enum" /\ registered = {}) =>
                /\ result.thrown = [what |-> UnknownName(factory), name |-> argument]
                /\ result.value = NoValue
          /\ (lookup.call = "str2enum" /\ registered # {}) =>
                /\ result.thrown = NoError
                /\ registered = {result.value}
                /\ getName(Factory_create(factory, result.value).value) = argument
          /\ (lookup.call = "create" /\ argument \notin Enumerators(factory)) =>
                /\ result.thrown = [what |-> Unimplemented(factory), name |-> ""]
                /\ result.value = NoValue

\* The activation factory has refused a name that differs from a registered
\* one in its case only.
C8_Witness ==
    /\ lookup # <<>>
    /\ lookup.factory = "ActivationFunctionFactory"
    /\ lookup.call = "str2enum"
    /\ lookup.argument = "Logistic"
    /\ lookup.result.thrown # NoError

Reread(a) == ParseDouble(FormatDouble(a))

SameStructure(a, b) ==
    /\ a.inputSize = b.inputSize
    /\ a.costFunction = b.costFunction
    /\ Len(a.layers) = Len(b.layers)
    /\ \A i \in 1 .. Len(a.layers) :
         /\ a.layers[i].size = b.layers[i].size
         /\ a.layers[i].activationFunction = b.layers[i].activationFunction
         /\ Len(a.layers[i].bias) = Len(b.layers[i].bias)
         /\ Len(a.layers[i].weight) = Len(b.layers[i].weight)
         /\ \A r \in 1 .. Len(a.layers[i].weight) :
              Len(a.layers[i].weight[r]) = Len(b.layers[i].weight[r])

(***************************************************************************)
(* C9: a network with at least one layer, saved and loaded, comes back     *)
(* with its inputSize, its cost function, its layers in number and order,  *)
(* each with its size, its activation, a bias of the same length and a     *)
(* weight matrix of the same shape; every bias and weight entry comes back *)
(* at its position as the value the file's text of it reads as, which is   *)
(* the entry itself only where Digits10 digits tell it apart.              *)
(***************************************************************************)
C9_RoundTripRounded ==
    (pc = "loaded" /\ Len(net.layers) >= 1) =>
      /\ loaded # <<>>
      /\ SameStructure(loaded, net)
      /\ \A i \in 1 .. Len(net.layers) :
           /\ \A r \in 1 .. Len(net.layers[i].bias) :
                loaded.layers[i].bias[r] = Reread(net.layers[i].bias[r])
           /\ \A r \in 1 .. Len(net.layers[i].weight) :
                \A c \in 1 .. Len(net.layers[i].weight[r]) :
                   loaded.layers[i].weight[r][c] = Reread(net.layers[i].weight[r][c])

\* A trained network whose first layer's weight matrix is not square has
\* come back with an entry changed.
C9_Witness ==
    /\ pc = "loaded" /\ calls >= 1 /\ outcome = "returned"
    /\ Len(net.layers) = 2
    /\ Len(net.layers[1].weight) # Len(net.layers[1].weight[1])
    /\ SameStructure(loaded, net)
    /\ loaded.layers # net.layers

\* The inputs the forward outputs are compared on.
TestInputs == {<<Zero, Zero>>, <<One, Zero>>, <<Zero, One>>, <<One, One>>}

\* C9 as it is worded: every entry and the forward output come back exactly.
C9_RoundTripExact ==
    (pc = "loaded" /\ Len(net.layers) >= 1) =>
      /\ loaded # <<>>
      /\ SameStructure(loaded, net)
      /\ loaded.layers = net.layers
      /\ \A x \in TestInputs :
           Network_feedForward(loaded.layers, x) = Network_feedForward(net.layers, x)

C11_AccuracyAndCost ==
    (/\ lookup # <<>>
     /\ lookup.call = "calcAccuracyAndCost"
     /\ lookup.result.returned
     /\ ~lookup.result.value.oob) =>
       LET data == lookup.argument.data
           ubCast == lookup.argument.ubCast
           result == lookup.result.value
           last == net.layers[Len(net.layers)].size
           out == Vec([i \in 1 .. Len(data) |->
                      Network_feedForward(net.layers, data[i].first)])
           hits == {i \in 1 .. Len(data) :
                      output2prediction(out[i], ubCast) =
                         output2prediction(data[i].second, ubCast)}
           costs == Vec([i \in 1 .. Len(data) |->
                        Cost_calculate(net.costFunction, out[i],
                           prediction2output(last, data[i].second, ubCast).output)])
           squares == Vec([i \in 1 .. Len(net.layers) |->
                          Mul(FrobeniusNorm(net.layers[i].weight),
                              FrobeniusNorm(net.layers[i].weight))])
       IN  /\ result.correct = Cardinality(hits)
           /\ result.correct >= 0 /\ result.correct <= Len(data)
           /\ result.cost = Add(Sum(costs),
                                Mul(Div(lookup.argument.lambda, FromInt(2)),
                                    Sum(squares)))

\* A set of three samples on a network of two layers, some decided as
\* labelled and some not, with a regularization term that is not zero.
C11_Witness ==
    /\ lookup # <<>>
    /\ lookup.call = "calcAccuracyAndCost"
    /\ lookup.result.returned /\ ~lookup.result.value.oob
    /\ Len(lookup.argument.data) = 3
    /\ Len(net.layers) = 2
    /\ lookup.argument.lambda = FromInt(3)
    /\ lookup.result.value.correct \in {1, 2}
    /\ IsFinite(lookup.result.value.cost)
    /\ lookup.result.value.cost #
          calcAccuracyAndCost(net.layers, net.costFunction, lookup.argument.data,
                              Zero, lookup.argument.ubCast).cost

IsMaximumAt(v, k) ==
    /\ k + 1 \in 1 .. Len(v)
    /\ \A j \in 1 .. Len(v) : ~Gt(v[j], v[k + 1])
    /\ \A j \in 1 .. k : Gt(v[k + 1], v[j])

IsLabelOfClass(v, k) == v = <<FromInt(k)>>

OneHot(size, k) == [j \in 1 .. size |-> IF j = k + 1 THEN One ELSE Zero]

(***************************************************************************)
(* C12: output2prediction gives the index of the maximum of a vector of    *)
(* more than one element and the cast of the element of a vector of one;   *)
(* prediction2output passes a label of more than one element through and   *)
(* expands a scalar label k, 0 <= k < the last layer's size, into the zero *)
(* vector of that size with a 1 at index k; and the decision read from the *)
(* expanded label is the decision read from the label, for every last      *)
(* layer's size from 1 on.                                                 *)
(***************************************************************************)
C12_ConversionsMirror ==
    (lookup # <<>> /\ lookup.call = "prediction2output" /\ lookup.result.returned) =>
       LET v == lookup.argument.prediction
           r == lookup.result.value
           last == net.layers[Len(net.layers)].size
       IN  /\ Len(v) > 1 => IsMaximumAt(v, r.prediction) /\ r.output = v
           /\ \A k \in 0 .. last - 1 :
                IsLabelOfClass(v, k) =>
                   /\ r.prediction = k
                   /\ r.output = OneHot(last, k)
                   /\ r.back = r.prediction

\* The scalar label 0 has been expanded for a last layer of one neuron.
C12_Witness ==
    /\ lookup # <<>> /\ lookup.call = "prediction2output" /\ lookup.result.returned
    /\ lookup.argument.prediction = <<Zero>>
    /\ net.layers[Len(net.layers)].size = 1
    /\ lookup.result.value.output = <<One>>
    /\ lookup.result.value.prediction = 0
    /\ lookup.result.value.back = 1

\* C12 with a last layer of two neurons or more, where the mirror holds.
C12_MirrorFromTwo ==
    (/\ lookup # <<>> /\ lookup.call = "prediction2output" /\ lookup.result.returned
     /\ net.layers[Len(net.layers)].size >= 2) =>
       LET v == lookup.argument.prediction
           r == lookup.result.value
           last == net.layers[Len(net.layers)].size
       IN  /\ Len(v) > 1 => IsMaximumAt(v, r.prediction) /\ r.output = v
           /\ \A k \in 0 .. last - 1 :
                IsLabelOfClass(v, k) =>
                   /\ r.prediction = k
                   /\ r.output = OneHot(last, k)
                   /\ r.back = r.prediction

NetworkInvariant(n) ==
    /\ Len(n.layers) >= 1
    /\ Len(n.layers[1].weight) >= 1
    /\ \A r \in 1 .. Len(n.layers[1].weight) : Len(n.layers[1].weight[r]) = n.inputSize
    /\ \A p \in 1 .. Len(n.training) :
         Len(n.training[p].second) = n.layers[Len(n.layers)].size

(***************************************************************************)
(* C13: whenever train has passed its checks and stands before its first   *)
(* epoch, the network has a layer, its first layer's weight has inputSize  *)
(* columns and its last layer's size is the length of the training labels, *)
(* however the layers were added, with initialization or without.          *)
(***************************************************************************)
C13_InvariantAtFirstEpoch ==
    (pc = "epoch" /\ iEpoch = 0 /\ passes = 0) => NetworkInvariant(net)

\* train stands before its first epoch on a network whose only layer was
\* added without initialization and has a weight of one column for an
\* inputSize of two.
C13_Witness ==
    /\ pc = "epoch" /\ iEpoch = 0 /\ outcome = "running"
    /\ Len(net.layers) = 1
    /\ net.layers[1].size = 2
    /\ net.layers[1].weight = << <<One>>, <<Neg(Half)>> >>
    /\ net.inputSize = 2
    /\ Len(net.training[1].first) = 2 /\ Len(net.training[1].second) = 2

PreviousSize(n, i) == IF i = 1 THEN n.inputSize ELSE n.layers[i - 1].size

ColumnsChain(n) ==
    \A i \in 1 .. Len(n.layers) :
       /\ Len(n.layers[i].weight) = n.layers[i].size
       /\ \A r \in 1 .. Len(n.layers[i].weight) :
            Len(n.layers[i].weight[r]) = PreviousSize(n, i)

(***************************************************************************)
(* C14: addLayer appends the layer: one layer more, the earlier ones as    *)
(* they were.  With initialization the appended layer, whatever it held,   *)
(* has a bias of length size and a weight of size rows and as many columns *)
(* as the layer that was last has neurons (inputSize on an empty network); *)
(* without, its bias and weight are those passed in.  So a network whose   *)
(* every layer was added with initialization has, in every layer, as many  *)
(* weight columns as the preceding layer has neurons: the empty network    *)
(* has the property and every such addLayer keeps it.                      *)
(***************************************************************************)
C14_AddLayer ==
    [][/\ net.layers = <<>> => ColumnsChain(net)
       /\ (lookup' # lookup /\ lookup'.call = "addLayer") =>
             LET passed == lookup'.argument.layer
                 initialize == lookup'.argument.isNotInitialized
                 count == Len(net.layers)
                 added == net'.layers[count + 1]
             IN  /\ Len(net'.layers) = count + 1
                 /\ SubSeq(net'.layers, 1, count) = net.layers
                 /\ added.size = passed.size
                 /\ added.activationFunction = passed.activationFunction
                 /\ initialize =>
                      /\ Len(added.bias) = passed.size
                      /\ Len(added.weight) = passed.size
                      /\ \A r \in 1 .. passed.size :
                           Len(added.weight[r]) = PreviousSize(net', count + 1)
                      /\ ColumnsChain(net) => ColumnsChain(net')
                 /\ ~initialize =>
                      /\ added.bias = passed.bias
                      /\ added.weight = passed.weight]_vars

\* A layer that held a weight of 2 x 1 has been added with initialization
\* behind a layer of two neurons, and holds a weight of 2 x 2.
C14_Witness ==
    /\ lookup # <<>> /\ lookup.call = "addLayer"
    /\ lookup.argument.isNotInitialized
    /\ lookup.argument.layer.weight = << <<One>>, <<Neg(Half)>> >>
    /\ Len(net.layers) = 2
    /\ net.layers[1].size = 2
    /\ Len(net.layers[2].weight) = 2
    /\ Len(net.layers[2].weight[1]) = 2
    /\ net.layers[2].weight # lookup.argument.layer.weight

(***************************************************************************)
(* C15: for a layer with a weight of size x p and a bias of length size    *)
(* and an input of length p, both overloads of feedForward give an         *)
(* activation of length size, the same one, and the second stores          *)
(* z = weight * x + bias and a = the activation function of z.             *)
(***************************************************************************)
C15_FeedForward ==
    (lookup # <<>> /\ lookup.call = "feedForward") =>
       LET layer == net.layers[lookup.argument.layer]
           x == lookup.argument.x
           r == lookup.result
       IN  /\ Len(r.returned) = layer.size
           /\ Len(r.a) = layer.size
           /\ r.returned = r.a
           /\ Len(r.z) = layer.size
           /\ \A k \in 1 .. layer.size :
                r.z[k] = Add(Sum([j \in 1 .. Len(x) |-> Mul(layer.weight[k][j], x[j])]),
                             layer.bias[k])
           /\ r.a = IF layer.activationFunction = "Logistic"
                    THEN Logistic_calculate(r.z)
                    ELSE Softmax_calculate(r.z)

\* The second layer of a network, of two neurons with a bias that is not
\* zero, has been fed an input that is not zero.
C15_Witness ==
    /\ lookup # <<>> /\ lookup.call = "feedForward"
    /\ lookup.argument.layer = 2
    /\ net.layers[2].size = 2
    /\ \E k \in 1 .. 2 : net.layers[2].bias[k] # Zero
    /\ \E j \in 1 .. Len(lookup.argument.x) : lookup.argument.x[j] # Zero
    /\ lookup.result.a # Layer_feedForwardValue_noBias(net.layers[2], lookup.argument.x)
    /\ lookup.result.z # lookup.result.a

ScalarLabels(n) == {n.training[p].second : p \in 1 .. Len(n.training)}

XorScenario ==
    /\ ~isTrueRandom
    /\ net.inputSize = 2
    /\ net.costFunction = "QuadraticCostFunction"
    /\ Len(net.layers) >= 1
    /\ \A i \in 1 .. Len(net.layers) : net.layers[i].activationFunction = "Logistic"
    /\ net.layers[Len(net.layers)].size = 1
    /\ calls = 1
    /\ outcome \in {"running", "returned", "aborted", "logic_error"}
    /\ batchSize = Len(net.training)
    /\ ScalarLabels(net) = {<<Zero>>, <<One>>}

(***************************************************************************)
(* C16: the XOR scenario, at the size of this model: a network of 2        *)
(* inputs with Logistic layers only, the last of one neuron, Quadratic     *)
(* cost, the fixed seed, trained in batches of the whole set on samples    *)
(* labelled with the scalars 0 and 1, completes its call of train without  *)
(* an error and records a training accuracy of 100%.                       *)
(***************************************************************************)
C16_XorLearned ==
    XorScenario =>
       /\ outcome \notin {"aborted", "logic_error"}
       /\ outcome = "returned" =>
            /\ Len(net.trainingAccuracy) = nEpoch
            /\ net.trainingAccuracy[nEpoch] = One

\* The scenario with a hidden layer of two neurons has ended at the first
\* evaluation of the training set.
C16_Witness ==
    /\ XorScenario
    /\ Len(net.layers) = 2 /\ net.layers[1].size = 2
    /\ pc = "aborted"
    /\ iEpoch = 0 /\ updates = 1

VecNonFinite(v) == \E i \in 1 .. Len(v) : ~IsFinite(v[i])
MatNonFinite(W) == \E i \in 1 .. Len(W) : VecNonFinite(W[i])
NonFiniteGradient(nabla_b, nabla_w) ==
    \E i \in 1 .. Len(nabla_b) : VecNonFinite(nabla_b[i]) \/ MatNonFinite(nabla_w[i])
NonFiniteParameters(n) ==
    \E i \in 1 .. Len(n.layers) :
       VecNonFinite(n.layers[i].bias) \/ MatNonFinite(n.layers[i].weight)

LabelInDomain(n, label) ==
    Len(label) > 1 \/ CastToSizeT(label[1], 0) < n.layers[Len(n.layers)].size
LabelsInDomain(n, eval) ==
    /\ \A p \in 1 .. Len(n.shuffled) : LabelInDomain(n, n.shuffled[p].second)
    /\ \A p \in 1 .. Len(eval) : LabelInDomain(n, eval[p].second)

(***************************************************************************)
(* C17: values that are not finite are never turned into errors.  When the *)
(* gradient of a sample holds a NaN or an infinity, the sample is          *)
(* accumulated like any other and train raises nothing; the batch's update *)
(* is applied with those values; and a call whose parameters have become   *)
(* non-finite goes on through every batch and epoch that remains and       *)
(* returns with the entries of all its epochs appended.  (The labels are   *)
(* in the domain of prediction2output: a scalar label is below the last    *)
(* layer's size.)                                                          *)
(***************************************************************************)
C17_NonFiniteSilent ==
    /\ [][(pc = "backprop" /\ idx < Len(net.batch)) =>
            LET g == backPropagate(net.layers, net.costFunction,
                                   ZeroNabla_b(net.layers),
                                   ZeroNabla_w(net.layers, net.inputSize),
                                   net.batch[idx + 1].first, net.batch[idx + 1].second)
            IN  (~g.thrown /\ NonFiniteGradient(g.delta_nabla_b, g.delta_nabla_w)) =>
                   /\ pc' = "backprop"
                   /\ outcome' = "running"
                   /\ idx' = idx + 1
                   /\ NonFiniteGradient(net'.nabla_b, net'.nabla_w)
                   /\ net'.layers = net.layers]_vars
    /\ [][(pc = "backprop" /\ idx = Len(net.batch)
             /\ NonFiniteGradient(net.nabla_b, net.nabla_w)) =>
            /\ pc' = "batch"
            /\ outcome' = "running"
            /\ iBatch' = iBatch + 1
            /\ NonFiniteParameters(net')
            /\ \A i \in 1 .. Len(net.layers) :
                 net'.layers[i] =
                    Layer_updateBiasWeight(net.layers[i], net.nabla_b[i], net.nabla_w[i],
                                           learningRateRatio, regularizationRatio)]_vars
    /\ [][(outcome = "running" /\ NonFiniteParameters(net)
             /\ LabelsInDomain(net, evaluation)) =>
            \/ /\ outcome' = "running"
               /\ iEpoch' = iEpoch + 1 =>
                    \A m \in 1 .. 4 : Len(Metrics(net')[m]) = Len(Metrics(net)[m]) + 1
            \/ /\ outcome' = "returned"
               /\ iEpoch = nEpoch
               /\ passes = nEpoch
               /\ updates = nEpoch * nBatches
               /\ MetricLengths(net') = {lenAtCall + nEpoch}]_vars

\* A call of two epochs of two batches or more has returned with parameters
\* that are not finite; the cost of its first epoch was already not finite,
\* and its second epoch ran all the same.
C17_Witness ==
    /\ outcome = "returned" /\ pc = "idle"
    /\ nEpoch = 2 /\ nBatches >= 2
    /\ NonFiniteParameters(net)
    /\ LabelsInDomain(net, evaluation)
    /\ Len(net.trainingCost) = lenAtCall + 2
    /\ ~IsFinite(net.trainingCost[lenAtCall + 1])

FiniteOrZero(v) == IF IsFinite(v) THEN v ELSE Zero
CrossEntropyTerms(x, t) ==
    <<Mul(Neg(t), Log(x)), Neg(Mul(Sub(One, t), Log(Sub(One, x))))>>
Contribution(x, t) ==
    Add(FiniteOrZero(CrossEntropyTerms(x, t)[1]),
        FiniteOrZero(CrossEntropyTerms(x, t)[2]))

(***************************************************************************)
(* C18: CrossEntropy.calculate of a predicted vector and a target vector   *)
(* with components in [0, 1] is finite: it is the sum, over the components, *)
(* of the terms -t*ln(x) and -(1-t)*ln(1-x) with each term that is not     *)
(* finite replaced by 0; the components x = 0, t = 1 and x = 1, t = 1      *)
(* contribute 0.                                                           *)
(***************************************************************************)
C18_CrossEntropyFinite ==
    (lookup # <<>> /\ lookup.call = "calculate") =>
       LET x == lookup.argument.x
           t == lookup.argument.t
       IN  /\ IsFinite(lookup.result)
           /\ lookup.result = Sum([i \in 1 .. Len(x) |-> Contribution(x[i], t[i])])
           /\ \A i \in 1 .. Len(x) :
                (x[i] \in {Zero, One} /\ t[i] = One) => Contribution(x[i], t[i]) = Zero

\* A vector with the components x = 0, t = 1 and x = 1/2, t = 1 has been
\* evaluated: the first term of the first component is infinite, the second
\* component's is finite and is the value returned.
C18_Witness ==
    /\ lookup # <<>> /\ lookup.call = "calculate"
    /\ lookup.argument.x = <<Zero, Half>>
    /\ lookup.argument.t = <<One, One>>
    /\ ~IsFinite(CrossEntropyTerms(Zero, One)[1])
    /\ lookup.result = Contribution(Half, One)
    /\ lookup.result # Zero

RECURSIVE GradientSum(_, _, _)
GradientSum(n, i, acc) ==
    IF i > Len(n.batch) THEN acc
    ELSE LET g == backPropagate(n.layers, n.costFunction,
                                ZeroNabla_b(n.layers),
                                ZeroNabla_w(n.layers, n.inputSize),
                                n.batch[i].first, n.batch[i].second)
         IN  GradientSum(n, i + 1,
                [b |-> [j \in 1 .. Len(n.layers) |->
                          VecAdd(acc.b[j], g.delta_nabla_b[j])],
                 w |-> [j \in 1 .. Len(n.layers) |->
                          MatAdd(acc.w[j], g.delta_nabla_w[j])]])

(***************************************************************************)
(* C19: throughout one train call the learning-rate ratio is               *)
(* -eta / batchSize and the regularization ratio is                        *)
(* -eta * lambda / |training|, and every update of the parameters, in      *)
(* every batch of every epoch, is Layer::updateBiasWeight with these two    *)
(* ratios and the sum of the gradients of the batch's samples, which is    *)
(* divided nowhere else.                                                   *)
(***************************************************************************)
C19_UpdateRatios ==
    /\ [](outcome = "running" =>
            /\ learningRateRatio = Div(Neg(eta), FromInt(batchSize))
            /\ regularizationRatio =
                  Div(Mul(Neg(eta), lambda), FromInt(Len(net.training))))
    /\ [][(pc = "backprop" /\ pc' = "batch") =>
            LET s == GradientSum(net, 1, [b |-> ZeroNabla_b(net.layers),
                                          w |-> ZeroNabla_w(net.layers, net.inputSize)])
            IN  /\ \A i \in 1 .. Len(net.layers) :
                     /\ net.nabla_b[i] = s.b[i]
                     /\ net.nabla_w[i] = s.w[i]
                     /\ net'.layers[i] =
                          Layer_updateBiasWeight(
                             net.layers[i], s.b[i], s.w[i],
                             Div(Neg(eta), FromInt(batchSize)),
                             Div(Mul(Neg(eta), lambda), FromInt(Len(net.training))))
                /\ Len(net'.layers) = Len(net.layers)]_vars

\* The second update of a call with batches of two samples out of three and
\* a regularization that is not zero has been applied.
C19_Witness ==
    /\ pc = "batch" /\ outcome = "running"
    /\ updates >= 2
    /\ batchSize = 2
    /\ Len(net.training) = 3
    /\ lambda # Zero
    /\ learningRateRatio # Neg(eta)

RECURSIVE ActivationOf(_, _, _)
ActivationOf(layers, i, x) ==
    IF i = 0 THEN x
    ELSE Layer_feedForwardValue(layers[i], ActivationOf(layers, i - 1, x))

PreActivationOf(layers, i, x) ==
    LET a == ActivationOf(layers, i - 1, x)
    IN  [k \in 1 .. layers[i].size |->
           Add(Sum([j \in 1 .. Len(a) |-> Mul(layers[i].weight[k][j], a[j])]),
               layers[i].bias[k])]

BackPropagated == lookup # <<>> /\ lookup.call = "backPropagate"

\* The calls of the forward pass: the first L calls.
ForwardOrder(layers, x, made) ==
    /\ Len(made) >= Len(layers)
    /\ \A i \in 1 .. Len(layers) :
         /\ made[i].function = "feedForward"
         /\ made[i].layer = i
         /\ made[i].a = ActivationOf(layers, i - 1, x)
         /\ made[i].z = PreActivationOf(layers, i, x)
         /\ made[i].out = ActivationOf(layers, i, x)

\* The calls number L + 1 .. L + n are feedBackward on the layers
\* L, L - 1, ..., L - n + 1 with the arguments of the claim.
BackwardOrder(layers, costFunction, x, y, made, n) ==
    LET L == Len(layers)
    IN  \A k \in 1 .. n :
           LET c == made[L + k]
           IN  /\ c.function = "feedBackward"
               /\ c.layer = L - k + 1
               /\ c.delta = IF k = 1
                            THEN Cost_calculate_derivative(
                                    costFunction, ActivationOf(layers, L, x), y)
                            ELSE made[L + k - 1].out
               /\ c.a = ActivationOf(layers, c.layer - 1, x)
               /\ c.z = PreActivationOf(layers, c.layer, x)

\* C20 as it is worded: every layer is reached, whatever its activation is.
C20_OncePerLayer ==
    BackPropagated =>
       LET layers == net.layers
           made == lookup.result.calls
       IN  /\ ForwardOrder(layers, lookup.argument.x, made)
           /\ Len(made) = 2 * Len(layers)
           /\ BackwardOrder(layers, net.costFunction, lookup.argument.x,
                            lookup.argument.y, made, Len(layers))

(***************************************************************************)
(* C20: backPropagate on a network of L >= 1 layers first calls            *)
(* feedForward on the layers in increasing order, storing each layer's     *)
(* pre-activation and activation, then feedBackward in decreasing order,   *)
(* once per layer it reaches: the last layer is given                      *)
(* costFunction.calculate_derivative(final activation, y), every other     *)
(* layer the error signal the layer above handed back, and each layer the  *)
(* activation of the layer below (the input x for the first) and its own   *)
(* pre-activation.  The walk reaches every layer unless a layer's          *)
(* activation derivative raises (Softmax): then it ends at that layer.     *)
(***************************************************************************)
C20_BackPropagateOrder ==
    BackPropagated =>
       LET layers == net.layers
           L == Len(layers)
           made == lookup.result.calls
           n == Len(made) - L
       IN  /\ ForwardOrder(layers, lookup.argument.x, made)
           /\ n \in 1 .. L
           /\ BackwardOrder(layers, net.costFunction, lookup.argument.x,
                            lookup.argument.y, made, n)
           /\ \A k \in 1 .. n :
                made[L + k].thrown <=>
                   layers[L - k + 1].activationFunction = "Softmax"
           /\ \A k \in 1 .. n - 1 : ~made[L + k].thrown
           /\ n < L => made[L + n].thrown
           /\ lookup.result.thrown <=> made[L + n].thrown

\* backPropagate has come back from a network of two Logistic layers, the
\* first layer having been given an error signal that is not the cost
\* function's derivative.
C20_Witness ==
    /\ BackPropagated
    /\ Len(net.layers) = 2
    /\ ~lookup.result.thrown
    /\ Len(lookup.result.calls) = 4
    /\ lookup.result.calls[4].layer = 1
    /\ lookup.result.calls[4].delta # lookup.result.calls[3].delta
    /\ lookup.result.calls[3].delta # ActivationOf(net.layers, 2, lookup.argument.x)

\* backPropagate has raised at the Softmax layer on top of a Logistic layer,
\* which feedBackward was not called on.
C20_WitnessRaised ==
    /\ BackPropagated
    /\ Len(net.layers) = 2
    /\ net.layers[2].activationFunction = "Softmax"
    /\ net.layers[1].activationFunction = "Logistic"
    /\ lookup.result.thrown
    /\ Len(lookup.result.calls) = 3

FedBackward == lookup # <<>> /\ lookup.call = "feedBackward"

\* delta of feedBackward: the incoming signal times the derivative of the
\* Logistic activation at z, element by element.
DeltaOf(deltaPrevious, z) ==
    [k \in 1 .. Len(deltaPrevious) |->
       Mul(deltaPrevious[k], Logistic_calculate_derivative(z)[k])]

(***************************************************************************)
(* C21: feedBackward on a layer of shape size x p, with an error signal of *)
(* length size, an activation a of length p and a pre-activation z of      *)
(* length size, hands back delta_nabla_b = delta of length size,           *)
(* delta_nabla_w = delta * transpose(a) of the weight's shape, and the     *)
(* error signal transpose(weight) * delta of length p, delta being the     *)
(* incoming signal times the activation's derivative at z; the layer's     *)
(* bias and weight stay.  It raises exactly when the derivative does.      *)
(***************************************************************************)
C21_FeedBackward ==
    /\ [](FedBackward =>
            LET layer == net.layers[lookup.argument.layer]
                a == lookup.argument.a
                r == lookup.result
                delta == DeltaOf(lookup.argument.deltaPrevious, lookup.argument.z)
                p == Len(layer.weight[1])
            IN  /\ r.thrown <=> layer.activationFunction = "Softmax"
                /\ ~r.thrown =>
                     /\ Len(r.delta_nabla_b) = layer.size
                     /\ \A k \in 1 .. layer.size : r.delta_nabla_b[k] = delta[k]
                     /\ Len(r.delta_nabla_w) = Len(layer.weight)
                     /\ \A k \in 1 .. layer.size :
                          /\ Len(r.delta_nabla_w[k]) = p
                          /\ \A j \in 1 .. p :
                               r.delta_nabla_w[k][j] = Mul(delta[k], a[j])
                     /\ Len(r.deltaPrevious) = p
                     /\ \A j \in 1 .. p :
                          r.deltaPrevious[j] =
                             Sum([k \in 1 .. layer.size |->
                                    Mul(layer.weight[k][j], delta[k])]))
    /\ [][FedBackward' => nets' = nets]_vars

\* A layer of two neurons fed by two has been called with an activation that
\* is not zero and has handed back a signal other than the one it was given.
C21_Witness ==
    /\ FedBackward
    /\ ~lookup.result.thrown
    /\ net.layers[lookup.argument.layer].size = 2
    /\ Len(lookup.result.deltaPrevious) = 2
    /\ lookup.result.delta_nabla_b # lookup.argument.deltaPrevious
    /\ lookup.result.deltaPrevious # lookup.argument.deltaPrevious
    /\ \E k \in 1 .. 2 : \E j \in 1 .. 2 : lookup.result.delta_nabla_w[k][j] # Zero

\* What the claim says stays: the layers (their count, every bias and weight),
\* inputSize and the four metric sequences.
Kept(n) == <<n.layers, n.inputSize, Metrics(n)>>

ReadingCalls == {"predict", "calcAccuracyAndCost", "backPropagate", "printLayers"}

(***************************************************************************)
(* C22: predict, calcAccuracyAndCost, backPropagate, printLayers and       *)
(* NetworkBuilder::save leave the layers, inputSize and the four metric    *)
(* sequences as they were; and during train a bias or a weight changes     *)
(* only in the step where updateParameters calls updateBiasWeight on every *)
(* layer, the number of layers and inputSize not at all.                   *)
(***************************************************************************)
C22_ParametersFrame ==
    /\ [][(pc = "idle" /\ pc' = "called" /\ lookup'.call \in ReadingCalls)
             => Kept(net') = Kept(net)]_vars
    /\ [][(pc = "idle" /\ pc' = "saved") => Kept(net') = Kept(net)]_vars
    /\ [][(outcome = "running" \/ outcome' = "running") =>
            /\ Len(net'.layers) = Len(net.layers)
            /\ net'.inputSize = net.inputSize
            /\ net'.layers # net.layers =>
                 /\ pc = "backprop" /\ idx = Len(net.batch) /\ pc' = "batch"
                 /\ \A i \in 1 .. Len(net.layers) :
                      net'.layers[i] =
                         Layer_updateBiasWeight(net.layers[i], net.nabla_b[i],
                                                net.nabla_w[i], learningRateRatio,
                                                regularizationRatio)]_vars

\* A network trained with at least one update, a bias of its first layer not
\* zero, has been saved.
C22_Witness ==
    /\ pc = "saved"
    /\ outcome = "returned"
    /\ updates >= 1
    /\ file # <<>>
    /\ \E k \in 1 .. Len(net.layers[1].bias) : net.layers[1].bias[k] # Zero

\* predict has come back from a network of two layers.
C22_WitnessPredict ==
    /\ pc = "called" /\ lookup.call = "predict"
    /\ Len(net.layers) = 2

\* seq holds the samples of the caller's set of f features and labels of
\* length l, each once, every feature with its own label, in some order.
IsPermutationOf(seq, f, l) ==
    /\ {seq[p].id : p \in 1 .. Len(seq)} = 1 .. Len(seq)
    /\ \A p \in 1 .. Len(seq) : seq[p] = Sample(seq[p].id, f, l)

CallerSetPermuted(n) ==
    \E f \in FeatureSizes, l \in LayerSizes : IsPermutationOf(n.training, f, l)

(***************************************************************************)
(* C23: when optimize has returned, and so when train has returned, the    *)
(* caller's training set is a permutation of what it was: the same number  *)
(* of samples, each sample once, every feature with its own label, and no  *)
(* placeholder among them, whatever N and batchSize >= 1 are.              *)
(***************************************************************************)
C23_TrainingPermuted ==
    /\ (pc = "batch" /\ iBatch = nBatches /\ outcome = "running")
          => CallerSetPermuted(net)
    /\ (pc = "epoch" /\ outcome = "running") => CallerSetPermuted(net)
    /\ outcome = "returned" => CallerSetPermuted(net)

\* A call with batches of two out of three samples has returned, the set in
\* another order than the caller's.
C23_Witness ==
    /\ outcome = "returned" /\ pc = "idle"
    /\ batchSize = 2 /\ nBatches = 1 /\ updates >= 2
    /\ Len(net.training) = 3
    /\ \E p \in 1 .. 3 : net.training[p].id # p
    /\ CallerSetPermuted(net)

\* The step of an addLayer that initializes the layer it appends.
LayerInitialized == Len(net'.layers) = Len(net.layers) + 1

\* The first shuffle of the first train call has been made.
FirstShuffleDone == calls = 1 /\ passes = 1 /\ pc \in {"batch", "backprop"}

C24_ShuffleFromSeed ==
    (FirstShuffleDone /\ ~isTrueRandom) =>
       \E f \in FeatureSizes, l \in LayerSizes :
          net.shuffled =
             Shuffle(Dataset(f, l, Len(net.shuffled)), SeedEngine(FixedSeed)).seq

NameOf(factory, e) == getName(Factory_create(factory, e).value)

(***************************************************************************)
(* C25: for every enumerator e of the activation, the cost and the         *)
(* optimizer factory, str2enum of the name of the object created for e is  *)
(* e, and two enumerators of one factory have two names; so every name in  *)
(* a saved file is one its factory knows, and the loaded network has the   *)
(* cost function and, layer by layer, the activation function of the       *)
(* network saved.                                                          *)
(***************************************************************************)
C25_NameRoundTrip ==
    /\ (lookup # <<>> /\ lookup.call = "getName") =>
          lookup.result = Returned(lookup.argument)
    /\ \A factory \in Factories :
          \A e1, e2 \in Enumerators(factory) :
             NameOf(factory, e1) = NameOf(factory, e2) => e1 = e2
    /\ pc \in {"saved", "loaded"} =>
          /\ CostFunctionFactory_str2enum(file.header[2]).thrown = NoError
          /\ \A i \in 1 .. Len(file.layers) :
                ActivationFunctionFactory_str2enum(file.layers[i].activation).thrown
                   = NoError
    /\ pc = "loaded" =>
          /\ loaded # <<>>
          /\ loaded.costFunction = net.costFunction
          /\ Len(loaded.layers) = Len(net.layers)
          /\ \A i \in 1 .. Len(net.layers) :
                loaded.layers[i].activationFunction = net.layers[i].activationFunction

\* A cross-entropy network with a Logistic and a Softmax layer has been saved
\* and loaded.
C25_Witness ==
    /\ pc = "loaded"
    /\ loaded # <<>>
    /\ net.costFunction = "CrossEntropy"
    /\ Len(net.layers) = 2
    /\ net.layers[1].activationFunction = "Logistic"
    /\ net.layers[2].activationFunction = "Softmax"
    /\ loaded.layers[2].activationFunction = "Softmax"

\* The activation factory has been asked for the enum value of Softmax's name.
C25_WitnessName ==
    /\ lookup # <<>> /\ lookup.call = "getName"
    /\ lookup.factory = "ActivationFunctionFactory"
    /\ lookup.argument = "SOFTMAX"
    /\ lookup.result.value = "SOFTMAX"

(***************************************************************************)
(* C26: a train call that is under way comes to an end: it returns, or it  *)
(* raises an error, or (for labels outside the domain of                   *)
(* prediction2output) the process is ended at the out-of-bounds write; and *)
(* a call that has returned has made exactly nEpoch shuffles and           *)
(* nEpoch * (N div batchSize) parameter updates.  (A property of SpecLive.)*)
(***************************************************************************)
C26_TrainTerminates ==
    /\ (outcome = "running") ~> (outcome \in {"returned", "logic_error", "aborted"})
    /\ [](outcome = "aborted" => ~LabelsInDomain(net, evaluation))
    /\ [](outcome = "returned" =>
            /\ passes = nEpoch
            /\ updates = nEpoch * (Len(net.training) \div batchSize))

\* A call of two epochs on three samples in batches of one has returned
\* after two shuffles and six updates.
C26_Witness ==
    /\ outcome = "returned" /\ pc = "idle"
    /\ nEpoch = 2 /\ batchSize = 1 /\ Len(net.training) = 3
    /\ passes = 2 /\ updates = 6


\* train's validation has passed and the evaluation of an epoch is taking place.
EvaluationStep == pc = "batch" /\ iBatch = nBatches /\ pc' # pc

(***************************************************************************)
(* C27: in a train call whose data passed the shape validation, the label  *)
(* expansion (prediction2output) of the evaluation at the end of an epoch  *)
(* never writes outside the expected-output vector, on the training set or *)
(* on the evaluation set; a network whose last layer has one neuron,       *)
(* trained on the scalar labels 0 and 1, is one of the cases.              *)
(***************************************************************************)
C27_ExpansionInBounds ==
    [][EvaluationStep =>
         \A ubCast \in UBCastValues : ~Record(net, evaluation, ubCast).oob]_vars

\* A network whose last layer has one neuron has been evaluated, in a build
\* that does not check the index, on a training set with the labels 0 and 1:
\* the first epoch's entries are recorded and the call goes on.
C27_Witness ==
    /\ outcome = "running" /\ pc = "epoch" /\ iEpoch = 1
    /\ LastLayerSize(net) = 1
    /\ ScalarLabels(net) = {<<Zero>>, <<One>>}
    /\ ~LabelsInDomain(net, evaluation)
    /\ Len(net.trainingCost) = lenAtCall + 1


\* The step in which the callback (updateParameters) raises inside a batch.
CallbackRaises == pc = "backprop" /\ outcome' = "logic_error"

\* Position p (from 1) lies in the range [i*B, (i+1)*B) of batch i.
InBatchRange(p, i, B) ==
    InitialBatchIndex(i, B) < p /\ p <= InitialBatchIndex(i, B) + B

(***************************************************************************)
(* C28: when the parameter-update callback raises during batch i of        *)
(* optimize, the batch is not swapped back: the caller's training set      *)
(* keeps its length, its positions [i*B, (i+1)*B) hold the empty pairs the *)
(* batch was created with, every other position holds the sample the       *)
(* epoch's shuffle put there, and train ends with the error (it is idle    *)
(* again, the error is the call's outcome, and the set stays as it is).    *)
(***************************************************************************)
C28_BatchLeftSwapped ==
    [][CallbackRaises =>
         /\ pc' = "idle"
         /\ Len(nets'[1].training) = Len(net.shuffled)
         /\ \A p \in 1 .. Len(net.shuffled) :
              nets'[1].training[p] =
                 IF InBatchRange(p, iBatch, batchSize)
                 THEN Placeholder ELSE net.shuffled[p]]_vars

\* The callback has raised in a batch of two of a set of three samples (the
\* only error the callback can raise is the one of Softmax's derivative, at
\* the first sample of the first batch): the first two positions hold the
\* empty pair, the third the sample the shuffle put there.
C28_Witness ==
    /\ outcome = "logic_error" /\ pc = "idle"
    /\ calls = 1 /\ passes = 1 /\ updates = 0
    /\ iBatch = 0 /\ batchSize = 2
    /\ Len(net.training) = 3
    /\ net.training[1] = Placeholder
    /\ net.training[2] = Placeholder
    /\ net.training[3] # Placeholder
    /\ net.training[3] = net.shuffled[3]


\* A train call is under way whose batchSize is larger than its training set.
NoBatchCall ==
    /\ outcome = "running"
    /\ pc \in {"epoch", "batch", "backprop"}
    /\ batchSize > Len(net.training)

(***************************************************************************)
(* C29: a train call whose batchSize is larger than the training set       *)
(* (N div batchSize = 0) raises no error.  Every epoch of it shuffles the  *)
(* training set; no step of it changes a layer, so every bias and weight   *)
(* stay as they were before the call, and no parameter update is counted;  *)
(* every epoch appends one entry to each of the four metric sequences, so  *)
(* a call that has returned has made nEpoch shuffles and 0 updates and has *)
(* appended nEpoch entries.  (The process can be ended at the evaluation   *)
(* only by a label outside the domain of prediction2output, see C27.)      *)
(***************************************************************************)
C29_NoBatchTrain ==
    /\ [](NoBatchCall => nBatches = 0 /\ updates = 0 /\ pc # "backprop")
    /\ [][NoBatchCall =>
            /\ nets'[1].layers = net.layers
            /\ outcome' # "logic_error"
            /\ outcome' = "aborted" => ~LabelsInDomain(net, evaluation)
            /\ (pc = "epoch" /\ pc' = "batch") =>
                  /\ nets'[1].training = Shuffle(net.training, net.optEngine).seq
                  /\ passes' = passes + 1
            /\ (pc = "batch" /\ pc' = "epoch") =>
                  \A m \in 1 .. 4 :
                     Len(Metrics(nets'[1])[m]) = Len(Metrics(net)[m]) + 1
            /\ outcome' = "returned" =>
                  /\ passes = nEpoch
                  /\ MetricLengths(net) = {lenAtCall + nEpoch}]_vars

\* A call with batches of three on a set of two samples has returned after
\* two epochs: two shuffles, no update, two entries more in each metric, and
\* the set in another order than the caller's.
C29_Witness ==
    /\ outcome = "returned" /\ pc = "idle"
    /\ calls = 1
    /\ batchSize = 3 /\ Len(net.training) = 2 /\ nEpoch = 2
    /\ nBatches = 0 /\ passes = 2 /\ updates = 0
    /\ MetricLengths(net) = {2}
    /\ net.training[1].id = 2


\* The sum of the cost function's values over the samples of a set, as the
\* loop of calcAccuracyAndCost adds them up.
SampleCosts(n, data, ubCast) ==
    EvaluateFrom(n.layers, n.costFunction, data, 1,
                 [oob |-> FALSE, correct |-> 0, cost |-> Zero], ubCast).cost

\* The L2 term of calcAccuracyAndCost for train's lambda.
L2Term(n) ==
    calcAccuracyAndCost(n.layers, n.costFunction, <<>>, lambda, 0).cost

LastOf(seq) == seq[Len(seq)]

\* The sum over the layers of the squared Frobenius norm of the weight.
SquaredNorms(n) ==
    Sum(Vec([i \in 1 .. Len(n.layers) |->
           LET norm == FrobeniusNorm(n.layers[i].weight)
           IN  Mul(norm, norm)]))

\* C30 as it is worded: whatever the weights are, the entries appended are the
\* sums of the sample costs divided by the sizes of the sets.
C30_CostUnregularized ==
    [][(pc = "batch" /\ pc' = "epoch") =>
         \E ubCast \in UBCastValues :
            /\ LastOf(nets'[1].trainingCost) =
                  Div(SampleCosts(net, net.training, ubCast),
                      FromInt(Len(net.training)))
            /\ LastOf(nets'[1].evaluationCost) =
                  Div(SampleCosts(net, evaluation, ubCast),
                      FromInt(Len(evaluation)))]_vars

(***************************************************************************)
(* C30: the cost train records at the end of an epoch holds no L2 term of  *)
(* train's lambda: the evaluation runs with lambda 0, and adds             *)
(* (0 / 2) * (sum of the squared norms of the weights) to the sum of the   *)
(* sample costs.  While that sum of squared norms is finite, the entry     *)
(* appended to trainingCost is the sum of the cost function's values over  *)
(* the training samples divided by their number, and the entry appended to *)
(* evaluationCost the same over the evaluation set, whatever lambda train  *)
(* was called with.  When it is not finite, both entries are NaN.          *)
(***************************************************************************)
C30_CostUnregularizedFinite ==
    [][(pc = "batch" /\ pc' = "epoch") =>
         \E ubCast \in UBCastValues :
            IF IsFinite(SquaredNorms(net))
            THEN /\ LastOf(nets'[1].trainingCost) =
                       Div(SampleCosts(net, net.training, ubCast),
                           FromInt(Len(net.training)))
                 /\ LastOf(nets'[1].evaluationCost) =
                       Div(SampleCosts(net, evaluation, ubCast),
                           FromInt(Len(evaluation)))
            ELSE /\ LastOf(nets'[1].trainingCost) = NaN
                 /\ LastOf(nets'[1].evaluationCost) = NaN]_vars

\* An epoch has been recorded in a call with lambda 1 on a network whose L2
\* term is not 0: the recorded training cost is the mean of the sample costs
\* and differs from the mean that the term would have been added to.
C30_Witness ==
    /\ pc = "epoch" /\ outcome = "running" /\ iEpoch >= 1
    /\ lambda = One
    /\ L2Term(net) # Zero
    /\ IsFinite(LastOf(net.trainingCost))
    /\ LastOf(net.trainingCost) =
          Div(SampleCosts(net, net.training, 0), FromInt(Len(net.training)))
    /\ LastOf(net.trainingCost) #
          Div(Add(SampleCosts(net, net.training, 0), L2Term(net)),
              FromInt(Len(net.training)))

\* An epoch has been recorded on a cross-entropy network whose weights are
\* not finite: the sample costs sum to a finite value and the entry is NaN.
C30_WitnessNaN ==
    /\ pc = "epoch" /\ outcome = "running" /\ iEpoch >= 1
    /\ ~IsFinite(SquaredNorms(net))
    /\ IsFinite(SampleCosts(net, net.training, 0))
    /\ LastOf(net.trainingCost) = NaN

====
